---------------------------- MODULE Spec2Model ----------------------------
(***************************************************************************)
(* A model of the fragrance data pipeline of scentmatch                    *)
(* (data/hybrid-pipeline): the Kaggle cleaner, the scraper normalizers,    *)
(* deduplication by id, duplicate-name fixing, schema validation and the    *)
(* batch import into the store.                                            *)
(*                                                                         *)
(* Python strings are TLA+ strings; TLC evaluates Len, \o, SubSeq and Tail *)
(* on them, so every text operation below works character by character,    *)
(* as the Python built-in or regular expression it models does.            *)
(* A Python dict is a function whose DOMAIN is the set of keys present.    *)
(* An optional number is <<>> (None) or <<n>>; ratings are in tenths       *)
(* (4.2 is 42).                                                            *)
(***************************************************************************)
EXTENDS Integers, Sequences, FiniteSets, TLC

VARIABLES
    sources,     \* what the collection stages read: the Kaggle rows, the scrapy
                 \* items, the manual collection and the fetched pages
    input,       \* the dataset the last stage read
    fragrances,  \* the dataset the last stage wrote
    stage,       \* the last stage that ran
    report,      \* what the last stage reported besides the dataset
    store,       \* the external store: the fragrance ids it holds and the
                 \* requests it was sent
    importer     \* the state of the running import

vars == <<sources, input, fragrances, stage, report, store, importer>>

(***************************************************************************)
(* Bounds of the model.                                                    *)
(***************************************************************************)
MaxLen == 3          \* longest generated brand / perfume text
MaxGenderWords == 3  \* most words of a generated gender text
MaxRecords == 3      \* most records of a generated dataset
MaxCalls == 3        \* most calls of the scorer in a run
MaxAdded == 2        \* most scraped and most manual records merged into a base
MaxCycles == 2       \* most monitoring cycles of a run
MaxBrands == 1       \* most brands of a brands file
MaxCounted == 2      \* most fragrances of a file imported after the brands

(***************************************************************************)
(* Python str built-ins.                                                   *)
(***************************************************************************)
Char(s, i) == SubSeq(s, i, i)

UpperLetters == "ABCDEFGHIJKLMNOPQRSTUVWXYZÒ"
LowerLetters == "abcdefghijklmnopqrstuvwxyzò"
AsciiLower == "abcdefghijklmnopqrstuvwxyz"
Digits == "0123456789"
Whitespace == {" "}

CharsOf(s) == {Char(s, i) : i \in 1..Len(s)}

IndexOf(c, alphabet) ==
    IF \E i \in 1..Len(alphabet) : Char(alphabet, i) = c
    THEN CHOOSE i \in 1..Len(alphabet) : Char(alphabet, i) = c
    ELSE 0

LowerChar(c) ==
    LET i == IndexOf(c, UpperLetters) IN IF i > 0 THEN Char(LowerLetters, i) ELSE c

UpperChar(c) ==
    LET i == IndexOf(c, LowerLetters) IN IF i > 0 THEN Char(UpperLetters, i) ELSE c

IsCased(c) == c \in CharsOf(UpperLetters) \cup CharsOf(LowerLetters)

\* str.lower()
RECURSIVE Lower(_)
Lower(s) == IF s = "" THEN "" ELSE LowerChar(Char(s, 1)) \o Lower(Tail(s))

\* str.title(): a cased character is upper-cased after an uncased one (or at
\* the start) and lower-cased after a cased one.
RECURSIVE TitleFrom(_, _)
TitleFrom(s, afterCased) ==
    IF s = "" THEN ""
    ELSE LET c == Char(s, 1) IN
         (IF afterCased THEN LowerChar(c) ELSE UpperChar(c))
            \o TitleFrom(Tail(s), IsCased(c))

Title(s) == TitleFrom(s, FALSE)

\* str.strip(chars) / str.strip()
RECURSIVE LStrip(_, _)
LStrip(s, cs) == IF s # "" /\ Char(s, 1) \in cs THEN LStrip(Tail(s), cs) ELSE s

RECURSIVE RStrip(_, _)
RStrip(s, cs) ==
    IF s # "" /\ Char(s, Len(s)) \in cs
    THEN RStrip(SubSeq(s, 1, Len(s) - 1), cs)
    ELSE s

Strip(s, cs) == RStrip(LStrip(s, cs), cs)

\* sub in s
Contains(s, sub) ==
    \E i \in 1..(Len(s) - Len(sub) + 1) : SubSeq(s, i, i + Len(sub) - 1) = sub

StartsWith(s, prefix) ==
    Len(prefix) <= Len(s) /\ SubSeq(s, 1, Len(prefix)) = prefix

\* str.replace(old, new), old non-empty: leftmost non-overlapping occurrences
RECURSIVE Replace(_, _, _)
Replace(s, old, new) ==
    IF Len(s) < Len(old) THEN s
    ELSE IF SubSeq(s, 1, Len(old)) = old
         THEN new \o Replace(SubSeq(s, Len(old) + 1, Len(s)), old, new)
         ELSE Char(s, 1) \o Replace(Tail(s), old, new)

\* str.split(sep), sep non-empty: the parts between the leftmost
\* non-overlapping occurrences of sep
RECURSIVE SplitFrom(_, _, _)
SplitFrom(s, sep, part) ==
    IF Len(s) < Len(sep) THEN <<part \o s>>
    ELSE IF SubSeq(s, 1, Len(sep)) = sep
         THEN <<part>> \o SplitFrom(SubSeq(s, Len(sep) + 1, Len(s)), sep, "")
         ELSE SplitFrom(Tail(s), sep, part \o Char(s, 1))

Split(s, sep) == SplitFrom(s, sep, "")

\* re.sub(r'\s+', ' ', s)
RECURSIVE CollapseFrom(_, _)
CollapseFrom(s, inRun) ==
    IF s = "" THEN ""
    ELSE LET c == Char(s, 1) IN
         IF c \in Whitespace
         THEN (IF inRun THEN "" ELSE " ") \o CollapseFrom(Tail(s), TRUE)
         ELSE c \o CollapseFrom(Tail(s), FALSE)

CollapseWhitespace(s) == CollapseFrom(s, FALSE)

(***************************************************************************)
(* Slug and id generation.                                                 *)
(***************************************************************************)
IsSlugChar(c) == c \in CharsOf(AsciiLower) \cup CharsOf(Digits)

\* re.sub(r'[^a-z0-9]+', '-', s): every maximal run outside [a-z0-9] becomes
\* one hyphen
RECURSIVE HyphenateFrom(_, _)
HyphenateFrom(s, inRun) ==
    IF s = "" THEN ""
    ELSE LET c == Char(s, 1) IN
         IF IsSlugChar(c)
         THEN c \o HyphenateFrom(Tail(s), FALSE)
         ELSE (IF inRun THEN "" ELSE "-") \o HyphenateFrom(Tail(s), TRUE)

\* re.sub(r'[^a-z0-9]+', '-', s.lower()).strip('-')
\* a variant of Slugify that keeps the first word only
SlugifyFirstWord(s) == Strip(HyphenateFrom(Lower(Split(s, " ")[1]), FALSE), {"-"})

Slugify(s) == Strip(HyphenateFrom(Lower(s), FALSE), {"-"})

\* f"{brand_id}__{slug}"
MakeId(brand_id, slug) == brand_id \o "__" \o slug

\* fragrance['name'].lower().replace(' ', '-')
FixSlug(name) == Replace(Lower(name), " ", "-")

\* The slug function of test_slug_generation: NFD-decompose, drop the
\* combining marks, then lower-case, hyphenate and trim.
Accented == "òÒ"
BaseOfAccented == "oO"

RECURSIVE StripDiacritics(_)
StripDiacritics(s) ==
    IF s = "" THEN ""
    ELSE LET c == Char(s, 1)
             i == IndexOf(c, Accented)
         IN (IF i > 0 THEN Char(BaseOfAccented, i) ELSE c) \o StripDiacritics(Tail(s))

TestSlug(name) == Strip(HyphenateFrom(Lower(StripDiacritics(name)), FALSE), {"-"})

\* ^[a-z0-9]+(-[a-z0-9]+)*$
WellFormedSlug(s) ==
    /\ s # ""
    /\ \A i \in 1..Len(s) : IsSlugChar(Char(s, i)) \/ Char(s, i) = "-"
    /\ Char(s, 1) # "-"
    /\ Char(s, Len(s)) # "-"
    /\ ~Contains(s, "--")

\* re.sub(rf'^{re.escape(brand)}\s*[-:]?\s*', '', name, flags=re.IGNORECASE)
RemoveBrandPrefix(brand, name) ==
    IF StartsWith(Lower(name), Lower(brand))
    THEN LET rest == LStrip(SubSeq(name, Len(brand) + 1, Len(name)), Whitespace)
             cut == IF rest # "" /\ Char(rest, 1) \in {"-", ":"} THEN Tail(rest) ELSE rest
         IN LStrip(cut, Whitespace)
    ELSE name

\* name_cleaned of clean_fragrance_data
CleanName(brand, name) ==
    Strip(CollapseWhitespace(RemoveBrandPrefix(Strip(brand, Whitespace),
                                               Strip(name, Whitespace))),
          Whitespace)

(***************************************************************************)
(* Gender normalization.                                                   *)
(***************************************************************************)
\* kaggle_processor.clean_fragrance_data
KaggleGender(text) ==
    LET gender == Strip(Lower(text), Whitespace) IN
    IF Contains(gender, "women") /\ ~Contains(gender, "men") THEN "women"
    ELSE IF Contains(gender, "men") /\ ~Contains(gender, "women") THEN "men"
    ELSE "unisex"

\* 03_ethical_scraper._parse_fragrance_html
ScraperGender(text) ==
    LET gender_text == Lower(Strip(text, Whitespace)) IN
    IF Contains(gender_text, "women") /\ ~Contains(Replace(gender_text, "women", ""), "men")
    THEN "women"
    ELSE IF Contains(gender_text, "men") /\ ~Contains(gender_text, "women") THEN "men"
    ELSE "unisex"


(***************************************************************************)
(* Python dict and truthiness helpers.                                     *)
(***************************************************************************)
Get(d, k, default) == IF k \in DOMAIN d THEN d[k] ELSE default

Put(d, k, v) == [x \in DOMAIN d \cup {k} |-> IF x = k THEN v ELSE d[x]]

None == <<>>

\* bool(v) of an optional number: None and 0 are false
TruthyNum(v) == v # None /\ v[1] # 0

Range(seq) == {seq[i] : i \in 1..Len(seq)}

RECURSIVE Flatten(_)
Flatten(seqs) == IF seqs = <<>> THEN <<>> ELSE Head(seqs) \o Flatten(Tail(seqs))

(***************************************************************************)
(* kaggle_processor.clean_fragrance_data.  A row of the Kaggle table has   *)
(* the columns Brand, Perfume, Gender, RatingValue ("Rating Value"),       *)
(* RatingCount ("Rating Count"), Year, Top, Middle, Base, Perfumer1, url,  *)
(* mainaccords (mainaccord1..5) and priority_score; a 'nan' cell is None.  *)
(***************************************************************************)
LuxuryBrands == {"dior", "chanel", "tom-ford", "creed", "hermès"}

RECURSIVE NonEmptyStripped(_)
NonEmptyStripped(cells) ==
    IF cells = <<>> THEN <<>>
    ELSE (IF Strip(Head(cells), Whitespace) # ""
          THEN <<Strip(Head(cells), Whitespace)>> ELSE <<>>)
         \o NonEmptyStripped(Tail(cells))

\* [p.strip() for p in str(row['Perfumer1']).split(',') if p.strip() != 'unknown']
RECURSIVE KnownPerfumers(_)
KnownPerfumers(parts) ==
    IF parts = <<>> THEN <<>>
    ELSE (IF Strip(Head(parts), Whitespace) # "unknown"
          THEN <<Strip(Head(parts), Whitespace)>> ELSE <<>>)
         \o KnownPerfumers(Tail(parts))

clean_fragrance_data(row) ==
    LET name == Strip(row.Perfume, Whitespace)
        brand == Strip(row.Brand, Whitespace)
        name_cleaned == CleanName(brand, name)
        gender_normalized == KaggleGender(row.Gender)
        brand_id == Slugify(brand)
        fragrance_slug == Slugify(name_cleaned)
        fragrance_id == MakeId(brand_id, fragrance_slug)
        rating == IF row.RatingValue # None THEN row.RatingValue[1] ELSE 30
        sample_price == IF brand_id \in LuxuryBrands THEN 20
                        ELSE IF rating >= 45 THEN 18
                        ELSE IF rating >= 40 THEN 16
                        ELSE 15
    IN [id |-> fragrance_id,
        brand_id |-> brand_id,
        brand_name |-> brand,
        name |-> name_cleaned,
        slug |-> fragrance_slug,
        rating_value |-> <<rating>>,
        rating_count |-> IF row.RatingCount # None THEN row.RatingCount ELSE <<0>>,
        year |-> row.Year,
        gender |-> gender_normalized,
        accords |-> NonEmptyStripped(row.mainaccords),
        top_notes |-> row.Top,
        middle_notes |-> row.Middle,
        base_notes |-> row.Base,
        perfumers |-> KnownPerfumers(Split(row.Perfumer1, ",")),
        fragrantica_url |-> row.url,
        sample_available |-> TRUE,
        sample_price_usd |-> <<sample_price>>,
        priority_score |-> row.priority_score]

(***************************************************************************)
(* fragrance_scraper pipelines.DataNormalizationPipeline.process_item.     *)
(* The scraped_at timestamp is left out.                                   *)
(***************************************************************************)
process_item(item) ==
    LET named == IF Get(item, "name", "") # ""
                 THEN Put(item, "name",
                          Title(Strip(CollapseWhitespace(item["name"]), Whitespace)))
                 ELSE item
        branded == IF Get(named, "brand", "") # ""
                   THEN Put(named, "brand",
                            Title(Strip(CollapseWhitespace(named["brand"]), Whitespace)))
                   ELSE named
        brand_slug == Slugify(branded["brand"])
        name_slug == Slugify(branded["name"])
        withIds == IF Get(branded, "brand", "") # "" /\ Get(branded, "name", "") # ""
                   THEN Put(Put(Put(branded, "brand_id", brand_slug),
                                "slug", name_slug),
                            "id", MakeId(brand_slug, name_slug))
                   ELSE branded
    IN Put(Put(withIds, "scraped_source", "fragrantica_scrapy"),
           "pipeline_version", "2.0_research_backed")

(***************************************************************************)
(* 03_ethical_scraper._parse_fragrance_html: the fields read from the      *)
(* page (page.name, page.brand, page.gender; "" when the element is        *)
(* missing) and the slugs taken from the URL.                              *)
(***************************************************************************)
parse_fragrance_html(page) ==
    LET url_parts == Split(Replace(page.url, ".html", ""), "/")
        n == Len(url_parts)
        brand_slug == IF n >= 2 THEN url_parts[n - 1] ELSE "unknown-brand"
        name_slug == IF n >= 2 THEN url_parts[n] ELSE "unknown-fragrance"
    IN [name |-> IF page.name # "" THEN Strip(page.name, Whitespace)
                 ELSE Title(Replace(name_slug, "-", " ")),
        brand |-> IF page.brand # "" THEN Strip(page.brand, Whitespace)
                  ELSE Title(Replace(brand_slug, "-", " ")),
        brand_id |-> brand_slug,
        slug |-> name_slug,
        gender |-> IF page.has_gender THEN ScraperGender(page.gender) ELSE "unisex",
        fragrantica_url |-> page.url,
        scraped_source |-> "fragrantica_real",
        sample_available |-> TRUE]

(***************************************************************************)
(* fix_data_for_import.py                                                  *)
(***************************************************************************)
\* a variant that keeps the identity only and reads the brand name from
\* 'brand'
normalize_brand_only(fragrance) ==
    [id |-> Get(fragrance, "id", ""),
     brand_id |-> Get(fragrance, "brand_id", ""),
     name |-> Get(fragrance, "name", ""),
     brand_name |-> IF "brand" \in DOMAIN fragrance THEN fragrance["brand"]
                    ELSE Get(fragrance, "brand_id", "")]

normalize_fragrance_record(fragrance) ==
    [id |-> Get(fragrance, "id", ""),
     brand_id |-> Get(fragrance, "brand_id", ""),
     name |-> Get(fragrance, "name", ""),
     slug |-> Get(fragrance, "slug", ""),
     gender |-> Get(fragrance, "gender", "unisex"),
     brand_name |-> IF "brand_name" \in DOMAIN fragrance THEN fragrance["brand_name"]
                    ELSE IF "brand" \in DOMAIN fragrance THEN fragrance["brand"]
                    ELSE Get(fragrance, "brand_id", ""),
     accords |-> IF "accords" \in DOMAIN fragrance THEN fragrance["accords"]
                 ELSE IF "main_accords" \in DOMAIN fragrance THEN fragrance["main_accords"]
                 ELSE <<>>,
     top_notes |-> Get(fragrance, "top_notes", ""),
     middle_notes |-> Get(fragrance, "middle_notes", ""),
     base_notes |-> Get(fragrance, "base_notes", ""),
     perfumers |-> Get(fragrance, "perfumers", <<>>),
     rating_value |-> Get(fragrance, "rating_value", None),
     rating_count |-> Get(fragrance, "rating_count", None),
     year |-> Get(fragrance, "year", None),
     priority_score |->
        IF "priority_score" \in DOMAIN fragrance THEN fragrance["priority_score"]
        ELSE IF "popularity_score" \in DOMAIN fragrance THEN fragrance["popularity_score"]
        ELSE LET rv == Get(fragrance, "rating_value", None)
                 rc == Get(fragrance, "rating_count", None)
                 rating == IF TruthyNum(rv) THEN rv[1] ELSE 0
                 reviews == IF TruthyNum(rc) THEN rc[1] ELSE 0
             \* rating * 10 + reviews / 1000, in thousandths of a point
             IN <<rating * 1000 + reviews>>,
     sample_available |-> Get(fragrance, "sample_available", TRUE),
     sample_price_usd |-> Get(fragrance, "sample_price_usd", <<15>>),
     fragrantica_url |-> Get(fragrance, "fragrantica_url", "")]

\* One pass of the loop body of fix_validation_errors: the records appended
\* for one input record (none when the record is skipped).
fix_one(fragrance) ==
    LET name == Get(fragrance, "name", "")
        id == Get(fragrance, "id", "")
        id_parts == Split(id, "__")
        recover == name = "" /\ id # "" /\ Len(id_parts) = 2
        named == IF recover /\ id_parts[2] # ""
                 THEN Put(Put(fragrance, "name", id_parts[2]), "slug", id_parts[2])
                 ELSE fragrance
        slugged == IF Get(named, "slug", "") = "" /\ Get(named, "name", "") # ""
                   THEN Put(named, "slug", FixSlug(named["name"]))
                   ELSE named
    IN IF name = "" /\ id = "" THEN <<>>
       ELSE IF recover /\ id_parts[2] = "" THEN <<>>
       ELSE <<slugged>>

fix_validation_errors(frs) == Flatten([i \in 1..Len(frs) |-> fix_one(frs[i])])

record_quality_score(record) ==
      (IF TruthyNum(Get(record, "rating_value", None)) THEN 10 ELSE 0)
    + (IF TruthyNum(Get(record, "rating_count", None)) THEN 10 ELSE 0)
    + (IF Get(record, "top_notes", "") # "" THEN 5 ELSE 0)
    + (IF Get(record, "middle_notes", "") # "" THEN 5 ELSE 0)
    + (IF Get(record, "base_notes", "") # "" THEN 5 ELSE 0)
    + (IF Get(record, "perfumers", <<>>) # <<>> THEN 3 ELSE 0)
    + (IF Get(record, "fragrantica_url", "") # "" THEN 1 ELSE 0)

\* a variant of best_record that keeps the last element of maximal key
last_best_record(group) ==
    group[CHOOSE i \in 1..Len(group) :
            /\ \A j \in 1..Len(group) :
                  record_quality_score(group[j]) <= record_quality_score(group[i])
            /\ \A j \in (i + 1)..Len(group) :
                  record_quality_score(group[j]) < record_quality_score(group[i])]

\* max(group, key=record_quality_score): the first element of maximal key
best_record(group) ==
    group[CHOOSE i \in 1..Len(group) :
            /\ \A j \in 1..Len(group) :
                  record_quality_score(group[j]) <= record_quality_score(group[i])
            /\ \A j \in 1..(i - 1) :
                  record_quality_score(group[j]) < record_quality_score(group[i])]

\* the keys of a dict filled in input order: each key once, in the order of
\* its first occurrence
RECURSIVE KeyOrder(_, _)
KeyOrder(keys, seen) ==
    IF keys = <<>> THEN <<>>
    ELSE IF Head(keys) \in seen THEN KeyOrder(Tail(keys), seen)
    ELSE <<Head(keys)>> \o KeyOrder(Tail(keys), seen \cup {Head(keys)})

\* id_groups[frag_id]
id_group(frs, frag_id) == SelectSeq(frs, LAMBDA f : f["id"] = frag_id)

\* a variant of remove_duplicates that drops a record only when the record
\* just before it has the same id
remove_adjacent_duplicates(frs) ==
    Flatten([i \in 1..Len(frs) |->
                IF i > 1 /\ frs[i]["id"] = frs[i - 1]["id"] THEN <<>> ELSE <<frs[i]>>])

\* a variant of remove_duplicates that gives the record kept of a group the
\* url of the group's first record
remove_duplicates_merging(frs) ==
    LET ids == KeyOrder([i \in 1..Len(frs) |-> frs[i]["id"]], {}) IN
    [k \in 1..Len(ids) |->
        LET group == id_group(frs, ids[k]) IN
        [best_record(group) EXCEPT !["fragrantica_url"] = group[1]["fragrantica_url"]]]

remove_duplicates(frs) ==
    LET ids == KeyOrder([i \in 1..Len(frs) |-> frs[i]["id"]], {}) IN
    [k \in 1..Len(ids) |->
        LET group == id_group(frs, ids[k]) IN
        IF Len(group) = 1 THEN group[1] ELSE best_record(group)]

(***************************************************************************)
(* 04_pipeline_integration.merge_all_datasets                              *)
(***************************************************************************)
IdsOf(frs) == {Get(frs[i], "id", "<None>") : i \in 1..Len(frs)}

RECURSIVE add_scrapy(_, _)
add_scrapy(merged_data, scrapy_data) ==
    IF scrapy_data = <<>> THEN merged_data
    ELSE LET item == Head(scrapy_data)
             item_id == Get(item, "id",
                            MakeId(Get(item, "brand_id", ""), Get(item, "slug", "")))
         IN add_scrapy(IF item_id \notin IdsOf(merged_data)
                       THEN Append(merged_data, item) ELSE merged_data,
                       Tail(scrapy_data))

RECURSIVE add_manual(_, _)
add_manual(merged_data, manual_data) ==
    IF manual_data = <<>> THEN merged_data
    ELSE LET raw == Head(manual_data)
             generate == /\ "id" \notin DOMAIN raw
                         /\ Get(raw, "brand", "") # ""
                         /\ Get(raw, "name", "") # ""
             brand_slug == Slugify(raw["brand"])
             name_slug == Slugify(raw["name"])
             item == IF generate
                     THEN Put(Put(Put(raw, "id", MakeId(brand_slug, name_slug)),
                                  "brand_id", brand_slug),
                              "slug", name_slug)
                     ELSE raw
             item_id == Get(item, "id", "<None>")
         IN add_manual(IF item_id \notin IdsOf(merged_data)
                       THEN Append(merged_data,
                                   Put(Put(Put(item, "scraped_source", "manual_collection"),
                                           "sample_available", TRUE),
                                       "sample_price_usd", <<16>>))
                       ELSE merged_data,
                       Tail(manual_data))

merge_all_datasets(kaggle_data, scrapy_data, manual_data) ==
    add_manual(add_scrapy(kaggle_data, scrapy_data), manual_data)

(***************************************************************************)
(* fix_duplicate_names.py                                                  *)
(***************************************************************************)
\* the concentrations dict, in its insertion order
Concentrations ==
    << <<"eau-de-toilette", "EDT">>, <<"eau-de-parfum", "EDP">>,
       <<"parfum", "Parfum">>, <<"extrait", "Extrait">>,
       <<"cologne", "Cologne">>, <<"eau-fraiche", "Eau Fraiche">> >>

VersionWords ==
    <<"intense", "extreme", "absolu", "noir", "sport", "aqua", "fresh",
      "cologne", "elixir">>

\* the first entry of a list that satisfies a test, 0 when none does
FirstIndex(S) == IF S = {} THEN 0 ELSE CHOOSE i \in S : \A j \in S : i <= j

IsDigit(c) == c \in CharsOf(Digits)

\* re.search(r'(19|20)\d{2}', name_part): the leftmost match, "" when none
year_match(name_part) ==
    LET At(i) == /\ i + 3 <= Len(name_part)
                 /\ SubSeq(name_part, i, i + 1) \in {"19", "20"}
                 /\ IsDigit(Char(name_part, i + 2))
                 /\ IsDigit(Char(name_part, i + 3))
        i == FirstIndex({k \in 1..Len(name_part) : At(k)})
    IN IF i > 0 THEN SubSeq(name_part, i, i + 3) ELSE ""

\* a variant of find_distinguisher that looks for the year first
find_distinguisher_year_first(name_part) ==
    LET c == FirstIndex({k \in 1..Len(Concentrations) :
                          Contains(name_part, Concentrations[k][1])})
        y == year_match(name_part)
        v == FirstIndex({k \in 1..Len(VersionWords) :
                          Contains(name_part, VersionWords[k])})
    IN IF y # "" THEN y
       ELSE IF c > 0 THEN Concentrations[c][2]
       ELSE IF v > 0 THEN Title(VersionWords[v])
       ELSE ""

\* the distinguisher found in the part of the id after '__', "" for None
find_distinguisher(name_part) ==
    LET c == FirstIndex({k \in 1..Len(Concentrations) :
                          Contains(name_part, Concentrations[k][1])})
        y == year_match(name_part)
        v == FirstIndex({k \in 1..Len(VersionWords) :
                          Contains(name_part, VersionWords[k])})
    IN IF c > 0 THEN Concentrations[c][2]
       ELSE IF y # "" THEN y
       ELSE IF v > 0 THEN Title(VersionWords[v])
       ELSE ""

\* str(i + 1) for the positions of a group
Decimal(n) == IF n < 10 THEN Char(Digits, n + 1)
              ELSE Char(Digits, (n \div 10) + 1) \o Char(Digits, (n % 10) + 1)

\* a variant of fix_member that rewrites slug and id from the amended name
fix_member_and_id(fragrance, i) ==
    LET original_id == Get(fragrance, "id", "")
        id_parts == Split(original_id, "__")
        distinguisher == find_distinguisher(id_parts[2])
        renamed(name) ==
            [fragrance EXCEPT !["name"] = name,
                              !["slug"] = Slugify(name),
                              !["id"] = MakeId(fragrance["brand_id"], Slugify(name))]
    IN IF Len(id_parts) # 2 THEN fragrance
       ELSE IF distinguisher # ""
       THEN IF ~Contains(fragrance["name"], distinguisher)
            THEN renamed(fragrance["name"] \o " " \o distinguisher)
            ELSE fragrance
       ELSE IF i > 0
       THEN renamed(fragrance["name"] \o " (" \o Decimal(i + 1) \o ")")
       ELSE fragrance

\* the body of the loop over a duplicate group: member i (from 0) of the group
fix_member(fragrance, i) ==
    LET original_id == Get(fragrance, "id", "")
        id_parts == Split(original_id, "__")
        distinguisher == find_distinguisher(id_parts[2])
    IN IF Len(id_parts) # 2 THEN fragrance
       ELSE IF distinguisher # ""
       THEN IF ~Contains(fragrance["name"], distinguisher)
            THEN Put(fragrance, "name", fragrance["name"] \o " " \o distinguisher)
            ELSE fragrance
       ELSE IF i > 0
       THEN Put(fragrance, "name", fragrance["name"] \o " (" \o Decimal(i + 1) \o ")")
       ELSE fragrance

NameKey(fragrance) == <<Get(fragrance, "brand_id", ""), Get(fragrance, "name", "")>>

\* name_groups[key]
name_group(frs, key) == SelectSeq(frs, LAMBDA f : NameKey(f) = key)

\* fixed_fragrances of fix_duplicate_names
fixed_fragrances(frs) ==
    LET keys == KeyOrder([i \in 1..Len(frs) |-> NameKey(frs[i])], {}) IN
    Flatten([k \in 1..Len(keys) |->
        LET group == name_group(frs, keys[k]) IN
        IF Len(group) = 1 THEN group
        ELSE [i \in 1..Len(group) |-> fix_member(group[i], i - 1)]])

\* remaining_duplicates of fix_duplicate_names: the records whose key was
\* already seen
remaining_duplicates(fixed) ==
    Cardinality({i \in 1..Len(fixed) :
                    \E j \in 1..(i - 1) : NameKey(fixed[j]) = NameKey(fixed[i])})

(***************************************************************************)
(* The stages of the pipeline.  Each action is one script (or one step of  *)
(* a script's main) run on the whole dataset.                              *)
(***************************************************************************)
(* 04_database_importer.validate_fragrance_data.  rating_value is in       *)
(* tenths, sample_price_usd in dollars; the error list is the list of the  *)
(* messages in the order they are appended.                                *)
(***************************************************************************)
\* str(n) of a non-negative int
RECURSIVE StrNat(_)
StrNat(n) == IF n < 10 THEN Char(Digits, n + 1)
             ELSE StrNat(n \div 10) \o Char(Digits, (n % 10) + 1)

\* str(n) of an int
StrInt(n) == IF n < 0 THEN "-" \o StrNat(0 - n) ELSE StrNat(n)

\* str(x) of a float with one decimal, x given in tenths
StrTenths(t) ==
    LET a == IF t < 0 THEN 0 - t ELSE t
    IN (IF t < 0 THEN "-" ELSE "") \o StrNat(a \div 10) \o "." \o StrNat(a % 10)

\* JSON null in a text field: a text no text of a dataset equals
Null == "<null>"

\* str(v) of a text or None
StrOrNone(v) == IF v = Null THEN "None" ELSE v

required_fields == <<"id", "brand_id", "name", "slug", "gender">>

valid_genders == {"men", "women", "unisex"}

required_field_errors(fragrance) ==
    Flatten([k \in 1..Len(required_fields) |->
        IF \/ required_fields[k] \notin DOMAIN fragrance
           \/ fragrance[required_fields[k]] \in {"", Null}
        THEN <<"Missing required field: " \o required_fields[k]>>
        ELSE <<>>])

\* a variant of accords_errors that does not ask for accords
no_accords_errors(fragrance) == <<>>

accords_errors(fragrance) ==
    IF "main_accords" \notin DOMAIN fragrance /\ "accords" \notin DOMAIN fragrance
    THEN <<"Missing accords data (need 'main_accords' or 'accords')">>
    ELSE <<>>

gender_errors(fragrance) ==
    IF "gender" \in DOMAIN fragrance /\ fragrance["gender"] \notin valid_genders
    THEN <<"Invalid gender: " \o StrOrNone(fragrance["gender"])
            \o " (must be one of: ['men', 'women', 'unisex'])">>
    ELSE <<>>

rating_errors(fragrance) ==
    IF /\ "rating_value" \in DOMAIN fragrance
       /\ fragrance["rating_value"] # None
       /\ ~(0 <= fragrance["rating_value"][1] /\ fragrance["rating_value"][1] <= 50)
    THEN <<"Invalid rating_value: " \o StrTenths(fragrance["rating_value"][1])
            \o " (must be 0.0-5.0)">>
    ELSE <<>>

price_errors(fragrance) ==
    IF /\ "sample_price_usd" \in DOMAIN fragrance
       /\ fragrance["sample_price_usd"] # None
       /\ ~(0 <= fragrance["sample_price_usd"][1] /\ fragrance["sample_price_usd"][1] <= 100)
    THEN <<"Invalid sample_price_usd: " \o StrInt(fragrance["sample_price_usd"][1])
            \o " (must be 0-100)">>
    ELSE <<>>

\* a variant of id_format_mismatch that compares the id with brand_id + '__' + slug
id_differs_from_brand_and_slug(fragrance) ==
    /\ "id" \in DOMAIN fragrance
    /\ "brand_id" \in DOMAIN fragrance
    /\ fragrance["id"] # MakeId(fragrance["brand_id"], Get(fragrance, "slug", ""))

\* the condition of the ID format check
id_format_mismatch(fragrance) ==
    /\ "id" \in DOMAIN fragrance
    /\ "brand_id" \in DOMAIN fragrance
    /\ ~StartsWith(fragrance["id"], fragrance["brand_id"] \o "__")

id_errors(fragrance) ==
    IF id_format_mismatch(fragrance)
    THEN <<"ID format mismatch: " \o fragrance["id"] \o " should start with "
            \o fragrance["brand_id"] \o "__">>
    ELSE <<>>

validation_errors(fragrance) ==
    required_field_errors(fragrance) \o accords_errors(fragrance)
    \o gender_errors(fragrance) \o rating_errors(fragrance)
    \o price_errors(fragrance) \o id_errors(fragrance)

\* a variant of validate_fragrance_data that returns at the first error
validate_until_first_error(fragrance) ==
    LET errors == validation_errors(fragrance)
    IN [is_valid |-> errors = <<>>,
        errors |-> IF errors = <<>> THEN <<>> ELSE <<errors[1]>>]

\* the exception the ID format check raises: None has no startswith, and
\* None + '__' is not defined
id_check_exception(fragrance) ==
    IF "id" \notin DOMAIN fragrance \/ "brand_id" \notin DOMAIN fragrance THEN ""
    ELSE IF fragrance["id"] = Null THEN "AttributeError"
    ELSE IF fragrance["brand_id"] = Null THEN "TypeError"
    ELSE ""

\* a variant of validate_fragrance_data that reports a null id or brand_id
\* as one more error
validate_without_raising(fragrance) ==
    IF id_check_exception(fragrance) # ""
    THEN [is_valid |-> FALSE,
          errors |-> required_field_errors(fragrance) \o accords_errors(fragrance)
                     \o gender_errors(fragrance) \o rating_errors(fragrance)
                     \o price_errors(fragrance) \o <<"ID format mismatch">>]
    ELSE [is_valid |-> Len(validation_errors(fragrance)) = 0,
          errors |-> validation_errors(fragrance)]

\* the (is_valid, errors) returned, or the exception raised
validate_fragrance_data(fragrance) ==
    IF id_check_exception(fragrance) # ""
    THEN [raised |-> id_check_exception(fragrance)]
    ELSE [is_valid |-> Len(validation_errors(fragrance)) = 0,
          errors |-> validation_errors(fragrance)]

(***************************************************************************)
(* kaggle_processor.calculate_priority_score and the selection of main.    *)
(* A row is a function from the column names to the text of the cell, as   *)
(* str() gives it ("nan" for a missing value).  Ratings are in tenths; a   *)
(* score is in units of 1/200000: the rating in tenths, the logarithm in   *)
(* hundredths, the brand boost in tenths and the recency boost in          *)
(* twentieths, the two manual boosts being whole numbers.                  *)
(***************************************************************************)
\* str.isdigit on a text of ASCII characters
isdigit(s) == s # "" /\ \A i \in 1..Len(s) : IsDigit(Char(s, i))

\* the number a text of digits denotes
RECURSIVE DigitsValue(_)
DigitsValue(s) ==
    IF s = "" THEN 0
    ELSE DigitsValue(SubSeq(s, 1, Len(s) - 1)) * 10 + (IndexOf(Char(s, Len(s)), Digits) - 1)

Unsigned(s) == IF s # "" /\ Char(s, 1) \in {"-", "+"} THEN Tail(s) ELSE s

Sign(s) == IF s # "" /\ Char(s, 1) = "-" THEN -1 ELSE 1

\* int(s): <<n>>, None for ValueError
py_int(s) ==
    LET t == Strip(s, Whitespace)
    IN IF isdigit(Unsigned(t)) THEN <<Sign(t) * DigitsValue(Unsigned(t))>> ELSE None

\* float(s) of a text with at most one decimal: <<tenths>>, None for
\* ValueError
py_float(s) ==
    LET t == Strip(s, Whitespace)
        parts == Split(Unsigned(t), ".")
        whole == parts[1]
        frac == IF Len(parts) = 2 THEN parts[2] ELSE ""
        ok == /\ Len(parts) <= 2
              /\ whole = "" \/ isdigit(whole)
              /\ frac = "" \/ (isdigit(frac) /\ Len(frac) = 1)
              /\ whole # "" \/ frac # ""
    IN IF ok THEN <<Sign(t) * (DigitsValue(whole) * 10 + DigitsValue(frac))>> ELSE None

\* math.log(x) in hundredths, for the review counts of the model's rows
log == (2 :> 69) @@ (4 :> 139) @@ (851 :> 675) @@ (1201 :> 709)

\* the scoring configuration of the processor's tests: the brand tiers in
\* the order of the file, the researched bestsellers and the classics
config ==
    [tiers |-> <<[tier |-> "luxury_tier", boost_multiplier |-> 18,
                  brands |-> {"dior", "chanel", "tom-ford", "creed"}],
                 [tier |-> "premium_tier", boost_multiplier |-> 15,
                  brands |-> {"yves-saint-laurent", "versace", "giorgio-armani"}],
                 [tier |-> "popular_tier", boost_multiplier |-> 13,
                  brands |-> {"hugo-boss", "calvin-klein", "burberry"}],
                 [tier |-> "niche_tier", boost_multiplier |-> 11,
                  brands |-> {"le-labo", "byredo", "diptyque"}]>>,
     true_bestsellers |-> <<"Sauvage Eau De Parfum", "Aventus", "Bleu de Chanel">>,
     proven_bestsellers_2025 |-> [manual_boost |-> 3],
     classic_fragrances |-> [manual_boost |-> 2,
                             fragrances |-> <<"allure-homme-sport", "terre-dhermes",
                                              "acqua-di-gio">>]]

\* s.replace('-', '').replace(' ', '')
Squeeze(s) == Replace(Replace(s, "-", ""), " ", "")

\* the score of a row whose rating and review count are parsed
boosted_score(rating, reviews, row, cfg) ==
    LET year == IF row["Year"] # "" /\ isdigit(row["Year"])
                THEN DigitsValue(row["Year"]) ELSE 2000
        brand == Strip(Lower(row["Brand"]), Whitespace)
        perfume_name == Lower(row["Perfume"])
        tier == FirstIndex({k \in 1..Len(cfg.tiers) : brand \in cfg.tiers[k].brands})
        brand_boost == IF tier > 0 THEN cfg.tiers[tier].boost_multiplier ELSE 10
        recency_boost == IF year >= 2020 THEN 24
                         ELSE IF year >= 2015 THEN 22
                         ELSE IF year >= 2010 THEN 21
                         ELSE 20
        bestseller_boost ==
            IF \E k \in 1..Len(cfg.true_bestsellers) :
                  Contains(Squeeze(perfume_name),
                           Replace(Replace(Lower(cfg.true_bestsellers[k]), " ", "-"), "-", ""))
            THEN cfg.proven_bestsellers_2025.manual_boost ELSE 1
        classic_boost ==
            IF \E k \in 1..Len(cfg.classic_fragrances.fragrances) :
                  Contains(Squeeze(perfume_name), Squeeze(cfg.classic_fragrances.fragrances[k]))
            THEN cfg.classic_fragrances.manual_boost ELSE 1
    IN IF reviews > 0 /\ rating > 0
       THEN rating * log[reviews + 1] * brand_boost * recency_boost
            * bestseller_boost * classic_boost
       ELSE 0

\* a variant that takes a missing rating for 3.0, as clean_fragrance_data
\* does
calculate_score_default_rating(row, cfg) ==
    LET rating_str == row["Rating Value"]
        rating == IF rating_str # "" /\ rating_str # "nan"
                  THEN py_float(Replace(rating_str, ",", ".")) ELSE <<30>>
        reviews_str == row["Rating Count"]
        reviews == IF reviews_str # "" /\ reviews_str # "nan"
                   THEN py_int(Replace(reviews_str, ",", "")) ELSE <<0>>
    IN IF rating = None \/ reviews = None THEN 0
       ELSE boosted_score(rating[1], reviews[1], row, cfg)

\* a variant that adds the number of calls made so far to the score
calculate_score_counting_calls(row, cfg) ==
    LET rating_str == row["Rating Value"]
        rating == IF rating_str # "" /\ rating_str # "nan"
                  THEN py_float(Replace(rating_str, ",", ".")) ELSE <<0>>
        reviews_str == row["Rating Count"]
        reviews == IF reviews_str # "" /\ reviews_str # "nan"
                   THEN py_int(Replace(reviews_str, ",", "")) ELSE <<0>>
    IN IF rating = None \/ reviews = None THEN 0
       ELSE boosted_score(rating[1], reviews[1], row, cfg) + Len(report)

\* calculate_priority_score: 0 when a cell does not parse (the ValueError
\* is caught) or when rating or reviews are not positive
calculate_priority_score(row, cfg) ==
    LET rating_str == row["Rating Value"]
        rating == IF rating_str # "" /\ rating_str # "nan"
                  THEN py_float(Replace(rating_str, ",", ".")) ELSE <<0>>
        reviews_str == row["Rating Count"]
        reviews == IF reviews_str # "" /\ reviews_str # "nan"
                   THEN py_int(Replace(reviews_str, ",", "")) ELSE <<0>>
    IN IF rating = None \/ reviews = None THEN 0
       ELSE boosted_score(rating[1], reviews[1], row, cfg)

\* df[df['priority_score'] > 0]
df_valid(df) == SelectSeq(df, LAMBDA row : row["priority_score"] > 0)

\* a variant of nlargest that takes, of the rows of equal score, the last
RECURSIVE nlargest_keep_last(_, _)
nlargest_keep_last(n, df) ==
    IF n = 0 \/ df = <<>> THEN <<>>
    ELSE LET S == {k \in 1..Len(df) :
                     \A j \in 1..Len(df) :
                         df[j]["priority_score"] <= df[k]["priority_score"]}
             i == CHOOSE k \in S : \A j \in S : j <= k
         IN <<df[i]>> \o nlargest_keep_last(n - 1, SubSeq(df, 1, i - 1)
                                                     \o SubSeq(df, i + 1, Len(df)))

\* df.nlargest(n, 'priority_score'): the n rows of highest score in
\* descending order, rows of equal score in the order of the file
RECURSIVE nlargest(_, _)
nlargest(n, df) ==
    IF n = 0 \/ df = <<>> THEN <<>>
    ELSE LET i == FirstIndex({k \in 1..Len(df) :
                                \A j \in 1..Len(df) :
                                    df[j]["priority_score"] <= df[k]["priority_score"]})
         IN <<df[i]>> \o nlargest(n - 1, SubSeq(df, 1, i - 1) \o SubSeq(df, i + 1, Len(df)))

\* the number of rows main selects (2000 in the processor)
top_n == 2

(***************************************************************************)
(* 02_gap_analyzer.prioritize_by_brand_tier.  The multipliers are in       *)
(* tenths; the brand table is the one the scorer reads.                    *)
(***************************************************************************)
\* brand_tiers[brand]: every tier that lists the brand assigns the entry
\* again, so the entry left is that of the last such tier (0 when none)
brand_tiers(brand, cfg) ==
    LET S == {k \in 1..Len(cfg.tiers) : brand \in cfg.tiers[k].brands}
    IN IF S = {} THEN 0 ELSE CHOOSE k \in S : \A j \in S : j <= k

prioritize_by_brand_tier(candidates, cfg) ==
    LET scored == [i \in 1..Len(candidates) |->
            LET tier == brand_tiers(candidates[i]["normalized_brand"], cfg) IN
            IF tier > 0
            THEN Put(Put(candidates[i], "brand_tier", cfg.tiers[tier].tier),
                     "priority_score", cfg.tiers[tier].boost_multiplier)
            ELSE Put(Put(candidates[i], "brand_tier", "unknown"), "priority_score", 10)]
    \* candidates.sort(key=priority_score, reverse=True): stable
    IN nlargest(Len(scored), scored)

(***************************************************************************)
(* 05_ongoing_monitor.execute_monitoring_cycle.  What a cycle meets is its  *)
(* environment: the phase that raises (if it is reached), the trending     *)
(* fragrances found and those of them that pass the quality filter, and    *)
(* whether the notification goes out.  Maintenance and notifications are   *)
(* enabled, as in the default configuration.                               *)
(***************************************************************************)
\* the try block and its except clause: the statistics and the results of
\* the cycle when the block is left
cycle_try(monitoring_stats, env) ==
    LET started == [monitoring_stats EXCEPT !.total_runs = @ + 1]
        cycle_results == [success |-> FALSE, new_fragrances_found |-> 0,
                          new_fragrances_imported |-> 0,
                          maintenance_tasks_completed |-> 0,
                          errors_encountered |-> <<>>, notifications_sent |-> 0]
        \* the phases the cycle goes through, in order
        phases == <<"detect">>
                  \o (IF env.found > 0 THEN <<"filter">> ELSE <<>>)
                  \o (IF env.found > 0 /\ env.quality > 0 THEN <<"import">> ELSE <<>>)
                  \o <<"maintenance", "metrics">>
        failed_at == FirstIndex({k \in 1..Len(phases) : phases[k] = env.raises})
        done(phase) == \E k \in 1..Len(phases) :
                          phases[k] = phase /\ (failed_at = 0 \/ k < failed_at)
        imported == IF done("import") THEN env.quality ELSE 0
        reached == [cycle_results EXCEPT
                      !.new_fragrances_found = IF done("detect") THEN env.found ELSE 0,
                      !.new_fragrances_imported = imported,
                      !.maintenance_tasks_completed = IF done("maintenance") THEN 3 ELSE 0]
        added == [started EXCEPT !.total_new_fragrances_added = @ + imported]
    IN IF failed_at = 0
       THEN [monitoring_stats |-> [added EXCEPT !.successful_runs = @ + 1,
                                                !.last_run_status = "success"],
             cycle_results |-> [reached EXCEPT !.success = TRUE]]
       ELSE [monitoring_stats |-> [added EXCEPT !.failed_runs = @ + 1,
                                                !.last_run_status = "failed"],
             cycle_results |->
                [reached EXCEPT !.errors_encountered =
                    <<[error_type |-> "Exception", error_message |-> env.raises]>>]]

\* a variant in which a failure of the notification leaves the cycle
execute_cycle_notification_uncaught(monitoring_stats, env) ==
    LET left == cycle_try(monitoring_stats, env) IN
    [monitoring_stats |-> left.monitoring_stats,
     outcome |-> IF env.notified THEN [returned |-> [left.cycle_results EXCEPT
                                                       !.notifications_sent = 1]]
                 ELSE [raised |-> "notification"]]

\* the whole cycle: after the try block the notifications are processed,
\* _process_notifications catching what they raise, and the results returned
execute_monitoring_cycle(monitoring_stats, env) ==
    LET left == cycle_try(monitoring_stats, env) IN
    [monitoring_stats |-> left.monitoring_stats,
     outcome |-> [returned |-> [left.cycle_results EXCEPT
                                  !.notifications_sent = IF env.notified THEN 1 ELSE 0]]]

(***************************************************************************)
(* 04_database_importer: transform_fragrance_for_db, check_existing_records *)
(* and the batches of batch_upsert.  In the datasets of the model the      *)
(* notes are texts and the perfumers a list.                               *)
(***************************************************************************)
\* del d[k]
Del(d, k) == [x \in DOMAIN d \ {k} |-> d[x]]

\* d[new] = d[old]; del d[old], when old is a key and new is not
Rename(d, old, new) ==
    IF old \in DOMAIN d /\ new \notin DOMAIN d THEN Del(Put(d, new, d[old]), old) ELSE d

\* d[k] = v when k is not a key
SetDefault(d, k, v) == IF k \in DOMAIN d THEN d ELSE Put(d, k, v)

\* [note.strip() for note in notes.split(',') if note.strip()]
split_notes(notes) ==
    LET parts == Split(notes, ",")
    IN Flatten([k \in 1..Len(parts) |->
                  IF Strip(parts[k], Whitespace) # ""
                  THEN <<Strip(parts[k], Whitespace)>> ELSE <<>>])

notes_to_arrays(d) ==
    [k \in DOMAIN d |->
        IF k \in {"top_notes", "middle_notes", "base_notes"} THEN split_notes(d[k]) ELSE d[k]]

\* a variant that renames the accords only
transform_accords_only(fragrance) ==
    notes_to_arrays(Rename(fragrance, "accords", "main_accords"))

transform_fragrance_for_db(fragrance) ==
    LET mapped == Rename(Rename(Rename(fragrance, "accords", "main_accords"),
                                "year", "launch_year"),
                         "priority_score", "popularity_score")
        defaults == SetDefault(SetDefault(SetDefault(Del(mapped, "brand_name"),
                                                     "sample_available", TRUE),
                                          "data_source", "hybrid_pipeline"),
                               "is_verified", TRUE)
    IN notes_to_arrays(defaults)

\* self.batch_size, and the batch sizes of bulk_import and of
\* create_fragrance_import_sql
batch_size == 2

Min(a, b) == IF a < b THEN a ELSE b

\* a variant that leaves out a batch shorter than b
full_slice(records, i, b) ==
    IF i + b > Len(records) THEN <<>> ELSE SubSeq(records, i + 1, i + b)

\* records[i:i + b], i counted from 0
slice(records, i, b) == SubSeq(records, i + 1, Min(i + b, Len(records)))

\* [records[i:i + b] for i in range(0, len(records), b)]
slices(records, b) ==
    [k \in 1..((Len(records) + b - 1) \div b) |-> slice(records, (k - 1) * b, b)]

\* records[i:i + self.batch_size]
batch_at(records, i) == slice(records, i, batch_size)

\* validate_brand_data
valid_tiers == <<"luxury", "premium", "designer", "mass", "niche", "celebrity">>

validate_brand_data(brand) ==
    LET missing(field) == field \notin DOMAIN brand \/ brand[field] \in {"", Null}
        required == SelectSeq(<<"id", "name", "slug">>, missing)
        tier == IF /\ "brand_tier" \in DOMAIN brand
                   /\ brand["brand_tier"] # Null
                   /\ \A k \in 1..Len(valid_tiers) : valid_tiers[k] # brand["brand_tier"]
                THEN <<"Invalid brand_tier: " \o brand["brand_tier"]
                        \o " (must be one of: ['luxury', 'premium', 'designer', 'mass', 'niche', 'celebrity'])">>
                ELSE <<>>
        score == IF /\ "sample_availability_score" \in DOMAIN brand
                    /\ brand["sample_availability_score"] # None
                    /\ ~(0 <= brand["sample_availability_score"][1]
                         /\ brand["sample_availability_score"][1] <= 100)
                 THEN <<"Invalid sample_availability_score: "
                        \o StrInt(brand["sample_availability_score"][1]) \o " (must be 0-100)">>
                 ELSE <<>>
        errors == [k \in 1..Len(required) |-> "Missing required field: " \o required[k]]
                  \o tier \o score
    IN [is_valid |-> errors = <<>>, errors |-> errors]

\* prestige_scores.get(tier, 1.0), in hundredths
prestige_score(tier) ==
    IF tier = "luxury" THEN 120 ELSE IF tier = "premium" THEN 115
    ELSE IF tier = "niche" THEN 118 ELSE IF tier = "designer" THEN 110
    ELSE IF tier = "celebrity" THEN 95 ELSE 100

transform_brand_for_db(brand) ==
    LET defaults == SetDefault(SetDefault(SetDefault(Del(brand, "fragrance_count"),
                        "is_active", TRUE), "affiliate_supported", FALSE),
                        "sample_availability_score", <<50>>)
        named == IF "display_name" \in DOMAIN defaults THEN defaults
                 ELSE IF "brand_name" \in DOMAIN brand
                 THEN Put(defaults, "display_name", brand["brand_name"])
                 ELSE Put(defaults, "display_name",
                          Title(Get(brand, "name", Get(brand, "id", ""))))
    IN IF "brand_tier" \in DOMAIN brand
       THEN Put(named, "prestige_score", <<prestige_score(brand["brand_tier"])>>)
       ELSE named

\* a variant of valid_brands that takes every brand of the file
all_brands(brands_data) ==
    [k \in 1..Len(brands_data) |-> transform_brand_for_db(brands_data[k])]

\* import_brands: the valid brands, transformed, in their order
valid_brands(brands_data) ==
    Flatten([k \in 1..Len(brands_data) |->
        IF validate_brand_data(brands_data[k]).is_valid
        THEN <<transform_brand_for_db(brands_data[k])>> ELSE <<>>])

\* the position of the first record validate_fragrance_data raises on, 0
\* when it raises on none
first_raising(fragrances_data) ==
    FirstIndex({k \in 1..Len(fragrances_data) :
                  "raised" \in DOMAIN validate_fragrance_data(fragrances_data[k])})

\* a variant that transforms every record, valid or not
all_fragrances(fragrances_data, n) ==
    [k \in 1..n |-> transform_fragrance_for_db(fragrances_data[k])]

\* the valid records among the first n, transformed, in their order
valid_fragrances(fragrances_data, n) ==
    Flatten([k \in 1..n |->
        IF validate_fragrance_data(fragrances_data[k]).is_valid
        THEN <<transform_fragrance_for_db(fragrances_data[k])>> ELSE <<>>])

\* the records of a list whose id is not in a set, in their order
not_existing(records, existing_ids) ==
    SelectSeq(records, LAMBDA r : r["id"] \notin existing_ids)

\* the keys of bulk_import's compatible_fields the model's records carry
compatible_fields ==
    {"id", "brand_id", "name", "slug", "gender", "launch_year", "perfumers",
     "main_accords", "top_notes", "middle_notes", "base_notes", "full_description",
     "short_description", "rating_value", "rating_count", "popularity_score",
     "sample_available", "sample_price_usd", "trending_score", "data_source",
     "is_verified", "fragrantica_url"}

\* bulk_import: the records stripped to the compatible fields, those without
\* id, name or brand_id left out
cleaned_fragrances(frs) ==
    Flatten([k \in 1..Len(frs) |->
        LET cleaned == [x \in DOMAIN frs[k] \cap compatible_fields |-> frs[k][x]]
        IN IF \A f \in {"id", "name", "brand_id"} :
                  f \in DOMAIN cleaned /\ cleaned[f] \notin {"", Null}
           THEN <<cleaned>> ELSE <<>>])

\* complete_import: does the record lack a brand_id, a name or an id
missing_required(fragrance) ==
    \E f \in {"brand_id", "name", "id"} : Get(fragrance, f, "") \in {"", Null}

\* complete_import: the minimal record posted for a fragrance, its null
\* values removed
import_record(fragrance) ==
    LET name == fragrance["name"]
        full == [id |-> fragrance["id"],
                 brand_id |-> fragrance["brand_id"],
                 name |-> name,
                 slug |-> Get(fragrance, "slug", Replace(Lower(name), " ", "-")),
                 gender |-> Get(fragrance, "gender", "unisex"),
                 main_accords |-> Get(fragrance, "main_accords", <<>>),
                 rating_value |-> Get(fragrance, "rating_value", None),
                 rating_count |-> Get(fragrance, "rating_count", None),
                 popularity_score |-> Get(fragrance, "popularity_score", None),
                 sample_available |-> Get(fragrance, "sample_available", TRUE),
                 sample_price_usd |-> Get(fragrance, "sample_price_usd", <<15>>),
                 data_source |-> "hybrid_pipeline_perfected",
                 is_verified |-> TRUE,
                 full_description |-> Get(fragrance, "full_description", ""),
                 fragrantica_url |-> Get(fragrance, "fragrantica_url", "")]
        is_none(f) ==
            \/ f \in {"slug", "gender", "full_description", "fragrantica_url"} /\ full[f] = Null
            \/ f \in {"rating_value", "rating_count", "popularity_score", "sample_price_usd"}
               /\ full[f] = None
    IN [f \in {x \in DOMAIN full : ~is_none(x)} |-> full[f]]

(***************************************************************************)
NoSources == [kaggle |-> <<>>, scrapy |-> <<>>, manual |-> <<>>, pages |-> <<>>]

\* the store before anything is known of it, the importer before it runs
NoStore == [fragrances |-> {}, requests |-> <<>>]

NoImport == <<>>

\* 03_ethical_scraper: every fetched page is parsed into a scraped record
ParseHtml ==
    /\ stage = "source"
    /\ sources.pages # <<>>
    /\ sources' = [sources EXCEPT
                     !.scrapy = @ \o [i \in 1..Len(sources.pages) |->
                                       parse_fragrance_html(sources.pages[i])]]
    /\ stage' = "parsed"
    /\ UNCHANGED <<input, fragrances, report, store, importer>>

\* fragrance_scraper: every scrapy item goes through DataNormalizationPipeline
ScrapyNormalize ==
    /\ stage = "source"
    /\ sources.scrapy # <<>>
    /\ sources' = [sources EXCEPT !.scrapy = [i \in 1..Len(@) |-> process_item(@[i])]]
    /\ stage' = "scraped"
    /\ UNCHANGED <<input, fragrances, report, store, importer>>

\* kaggle_processor.main: the loop over the selected rows
KaggleClean ==
    /\ stage \in {"source", "parsed", "scraped"}
    /\ sources.kaggle # <<>>
    /\ input' = sources.kaggle
    /\ fragrances' = [i \in 1..Len(sources.kaggle) |->
                        clean_fragrance_data(sources.kaggle[i])]
    /\ stage' = "cleaned"
    /\ UNCHANGED <<sources, report, store, importer>>

\* 04_pipeline_integration: merge the three sources
MergeAllDatasets ==
    /\ stage = "cleaned"
    /\ input' = fragrances
    /\ fragrances' = merge_all_datasets(fragrances, sources.scrapy, sources.manual)
    /\ stage' = "merged"
    /\ UNCHANGED <<sources, report, store, importer>>

\* fix_data_for_import.main, step 1
Normalize ==
    /\ stage \in {"merged", "loaded"}
    /\ input' = fragrances
    /\ fragrances' = [i \in 1..Len(fragrances) |->
                        normalize_fragrance_record(fragrances[i])]
    /\ stage' = "normalized"
    /\ UNCHANGED <<sources, report, store, importer>>

\* fix_data_for_import.main, step 2
RemoveDuplicates ==
    /\ stage = "normalized"
    /\ input' = fragrances
    /\ fragrances' = remove_duplicates(fragrances)
    /\ stage' = "deduplicated"
    /\ report' = [duplicates_removed |->
                    Len(fragrances) - Len(remove_duplicates(fragrances))]
    /\ UNCHANGED <<sources, store, importer>>

\* fix_data_for_import.main, step 3
FixValidationErrors ==
    /\ stage = "deduplicated"
    /\ input' = fragrances
    /\ fragrances' = fix_validation_errors(fragrances)
    /\ stage' = "fixed"
    /\ UNCHANGED <<sources, report, store, importer>>

\* fix_duplicate_names.fix_duplicate_names
FixDuplicateNames ==
    /\ stage \in {"fixed", "compatible"}
    /\ input' = fragrances
    /\ fragrances' = fixed_fragrances(fragrances)
    /\ stage' = "named"
    /\ report' = [count |-> Len(fixed_fragrances(fragrances)),
                  remaining_duplicates |->
                      remaining_duplicates(fixed_fragrances(fragrances))]
    /\ UNCHANGED <<sources, store, importer>>

\* 04_database_importer: validate_fragrance_data called on every record of
\* the dataset
ValidateFragrances ==
    /\ stage = "ready"
    /\ input' = fragrances
    /\ report' = [i \in 1..Len(fragrances) |-> validate_fragrance_data(fragrances[i])]
    /\ stage' = "validated"
    /\ UNCHANGED <<sources, fragrances, store, importer>>

\* the import statistics of a new importer
ZeroStats ==
    [brands_processed |-> 0, brands_imported |-> 0, brands_skipped |-> 0,
     fragrances_processed |-> 0, fragrances_imported |-> 0, fragrances_skipped |-> 0,
     duplicates_detected |-> 0, validation_errors |-> 0]

\* a request as the store sees it: the method, what a GET selects, the
\* records a POST carries, and how it ended
Get_(select, outcome) ==
    [method |-> "GET", select |-> select, batch |-> <<>>, outcome |-> outcome]

Post(batch, outcome) ==
    [method |-> "POST", select |-> "", batch |-> batch, outcome |-> outcome]

Delete(outcome) ==
    [method |-> "DELETE", select |-> "", batch |-> <<>>, outcome |-> outcome]

\* a variant of Posted in which a batch the store did not take is posted a
\* second time
posted_and_retried(batch, outcome) ==
    [fragrances |-> IF outcome = "ok"
                    THEN store.fragrances \cup {batch[k]["id"] : k \in 1..Len(batch)}
                    ELSE store.fragrances,
     requests |-> IF outcome = "ok"
                  THEN Append(store.requests, Post(batch, outcome))
                  ELSE store.requests \o <<Post(batch, outcome), Post(batch, outcome)>>]

\* the store after a POST: the records of an accepted batch are in it
Posted(batch, outcome) ==
    [fragrances |-> IF outcome = "ok"
                    THEN store.fragrances \cup {batch[k]["id"] : k \in 1..Len(batch)}
                    ELSE store.fragrances,
     requests |-> Append(store.requests, Post(batch, outcome))]

\* import_brands, called by import_pipeline_data on the brands file: the
\* brands are validated and transformed, the store is asked which of their
\* ids it holds (any of them; a failed request counts for none), and the
\* brands left are posted in batches, each taken or failed by the store
ImportBrands ==
    /\ stage = "brands_ready"
    /\ LET valid == valid_brands(input)
           ids == {valid[k]["id"] : k \in 1..Len(valid)}
       IN \E answer \in {"ok", "status", "exception"} : \E existing \in SUBSET ids :
          LET new == not_existing(valid, existing)
              batches == slices(new, batch_size)
          IN /\ answer # "ok" => valid # <<>> /\ existing = {}
             /\ \E outcomes \in [1..Len(batches) -> {"ok", "status", "exception"}] :
                   LET inserted == Len(Flatten([k \in 1..Len(batches) |->
                                       IF outcomes[k] = "ok" THEN batches[k] ELSE <<>>]))
                   IN /\ importer' =
                           [import_stats |->
                               [importer.import_stats EXCEPT
                                  !.brands_processed = @ + Len(input),
                                  !.validation_errors = @ + Cardinality(
                                     {k \in 1..Len(input) :
                                        ~validate_brand_data(input[k]).is_valid}),
                                  !.brands_skipped = @ + (Len(valid) - Len(new)),
                                  !.duplicates_detected = @ + (Len(valid) - Len(new)),
                                  !.brands_imported = IF new = <<>> THEN @ ELSE inserted],
                            brands_imported |-> Len(new)]
                      /\ store' = [store EXCEPT !.requests =
                                     (IF valid = <<>> THEN @ ELSE Append(@, Get_("id", answer)))
                                     \o [k \in 1..Len(batches) |-> Post(batches[k], outcomes[k])]]
    /\ stage' = "import_ready"
    /\ UNCHANGED <<sources, input, fragrances, report>>

\* import_fragrances, the validation loop: every record up to the first one
\* validate_fragrance_data raises on is counted and, when valid, transformed;
\* the exception leaves import_fragrances and import_pipeline_data
ImportValidate ==
    /\ stage = "import_ready"
    /\ LET r == first_raising(fragrances)
           n == IF r > 0 THEN r - 1 ELSE Len(fragrances)
           valid == valid_fragrances(fragrances, n)
           stats == [importer.import_stats EXCEPT
                       !.fragrances_processed = @ + (IF r > 0 THEN r ELSE n),
                       !.validation_errors = @ + (n - Len(valid))]
       IN IF r > 0
          THEN /\ importer' = [import_stats |-> stats,
                               brands_imported |-> importer.brands_imported,
                               raised |-> validate_fragrance_data(fragrances[r]).raised]
               /\ stage' = "import_raised"
          ELSE /\ importer' = [import_stats |-> stats,
                               brands_imported |-> importer.brands_imported,
                               valid_fragrances |-> valid]
               /\ stage' = "import_validated"
    /\ UNCHANGED <<sources, input, fragrances, report, store>>

\* import_fragrances, the duplicate filter: check_existing_records asks for
\* the ids the store holds among those of the valid records (no request
\* when there is none) and takes a failed request for an empty answer; the
\* records left go to batch_upsert, whose loop does not run on none
ImportCheckExisting ==
    /\ stage = "import_validated"
    /\ \E answer \in {"ok", "status", "exception"} :
          LET valid == importer.valid_fragrances
              ids == {valid[k]["id"] : k \in 1..Len(valid)}
              existing == IF answer = "ok" THEN store.fragrances \cap ids ELSE {}
              new == not_existing(valid, existing)
              stats == [importer.import_stats EXCEPT
                          !.fragrances_skipped = @ + (Len(valid) - Len(new)),
                          !.duplicates_detected = @ + (Len(valid) - Len(new))]
          IN /\ answer # "ok" => valid # <<>>
             /\ store' = [store EXCEPT !.requests =
                            IF valid = <<>> THEN @ ELSE Append(@, Get_("id", answer))]
             /\ IF new = <<>>
                THEN /\ importer' = [import_stats |-> stats,
                                     brands_imported |-> importer.brands_imported,
                                     new_fragrances |-> new, result |-> 0]
                     /\ stage' = "import_done"
                ELSE /\ importer' = [import_stats |-> stats,
                                     brands_imported |-> importer.brands_imported,
                                     new_fragrances |-> new, i |-> 0, inserted |-> 0]
                     /\ stage' = "upserting"
    /\ UNCHANGED <<sources, input, fragrances, report>>

\* batch_upsert, one pass of the loop: the batch is posted; the store takes
\* it, answers with an error status, or the request raises and is caught
BatchUpsert ==
    /\ stage = "upserting"
    /\ importer.i < Len(importer.new_fragrances)
    /\ \E outcome \in {"ok", "status", "exception"} :
          /\ store' = Posted(batch_at(importer.new_fragrances, importer.i), outcome)
          /\ importer' = [importer EXCEPT
                            !.i = @ + batch_size,
                            !.inserted =
                               IF outcome = "ok"
                               THEN @ + Len(batch_at(importer.new_fragrances, importer.i))
                               ELSE @]
    /\ UNCHANGED <<sources, input, fragrances, report, stage>>

\* batch_upsert returns (inserted, updated); import_fragrances records the
\* inserted count and returns len(new_fragrances)
ImportReturn ==
    /\ stage = "upserting"
    /\ importer.i >= Len(importer.new_fragrances)
    /\ importer' = [import_stats |->
                       [importer.import_stats EXCEPT !.fragrances_imported = importer.inserted],
                    brands_imported |-> importer.brands_imported,
                    new_fragrances |-> importer.new_fragrances,
                    result |-> Len(importer.new_fragrances)]
    /\ stage' = "import_done"
    /\ UNCHANGED <<sources, input, fragrances, report, store>>

\* import_pipeline_data after import_fragrances, with the embedding system
\* found inactive (no embedding request is made then): the tracking record
\* and the summary
ImportSummary ==
    /\ stage = "import_done"
    /\ report' =
         [tracking |->
             [total_records_processed |-> importer.import_stats.brands_processed
                                          + importer.import_stats.fragrances_processed,
              brands_imported |-> importer.import_stats.brands_imported,
              fragrances_imported |-> importer.import_stats.fragrances_imported,
              duplicates_skipped |-> importer.import_stats.duplicates_detected,
              errors_encountered |-> importer.import_stats.validation_errors],
          summary |->
             [brands_imported |-> importer.brands_imported,
              fragrances_imported |-> importer.result,
              duplicates_skipped |-> importer.import_stats.duplicates_detected,
              validation_errors |-> importer.import_stats.validation_errors,
              total_records |-> importer.brands_imported + importer.result,
              embedding_system_healthy |-> FALSE,
              embedding_generation_success |-> TRUE,
              pending_embeddings |-> "unknown"]]
    /\ stage' = "import_reported"
    /\ UNCHANGED <<sources, input, fragrances, store, importer>>

\* direct_import.bulk_import up to the fragrance loop, run with an empty
\* brands file: the fragrances table is cleared (the answer is not looked
\* at) and the fragrances stripped to the compatible fields
BulkPrepare ==
    /\ stage = "bulk_ready"
    /\ \E outcome \in {"ok", "status"} :
          store' = [fragrances |-> IF outcome = "ok" THEN {} ELSE store.fragrances,
                    requests |-> Append(store.requests, Delete(outcome))]
    /\ importer' = [cleaned_fragrances |-> cleaned_fragrances(fragrances),
                    i |-> 0, imported_fragrances |-> 0]
    /\ stage' = "bulk_upserting"
    /\ UNCHANGED <<sources, input, fragrances, report>>

\* bulk_import, one pass of the fragrance loop: the batch is posted; a
\* request that raises is not caught
BulkBatch ==
    /\ stage = "bulk_upserting"
    /\ importer.i < Len(importer.cleaned_fragrances)
    /\ \E outcome \in {"ok", "status", "exception"} :
          /\ store' = Posted(batch_at(importer.cleaned_fragrances, importer.i), outcome)
          /\ IF outcome = "exception"
             THEN /\ importer' = importer @@ [raised |-> "RequestException"]
                  /\ stage' = "bulk_raised"
             ELSE /\ importer' = [importer EXCEPT
                                    !.i = @ + batch_size,
                                    !.imported_fragrances =
                                       IF outcome = "ok"
                                       THEN @ + Len(batch_at(importer.cleaned_fragrances,
                                                             importer.i))
                                       ELSE @]
                  /\ stage' = stage
    /\ UNCHANGED <<sources, input, fragrances, report>>

\* bulk_import, the final verification: the count the store answers with
BulkVerify ==
    /\ stage = "bulk_upserting"
    /\ importer.i >= Len(importer.cleaned_fragrances)
    /\ store' = [store EXCEPT !.requests = Append(@, Get_("count", "ok"))]
    /\ report' = [brand_count |-> 0, frag_count |-> Cardinality(store.fragrances)]
    /\ stage' = "bulk_done"
    /\ UNCHANGED <<sources, input, fragrances, importer>>

\* import-fragrances.create_fragrance_import_sql: one statement per batch,
\* given here by the batch it carries and the name of its result column
CreateImportSql ==
    /\ stage = "sql_ready"
    /\ report' = [k \in 1..Len(slices(fragrances, batch_size)) |->
                    [batch |-> slices(fragrances, batch_size)[k],
                     column |-> "batch_" \o StrNat(k) \o "_imported"]]
    /\ stage' = "sql_created"
    /\ UNCHANGED <<sources, input, fragrances, store, importer>>

\* complete_import up to the loop: the ids in the store are asked for, the
\* records whose id is not among them are the missing ones; with none
\* missing the count is returned, otherwise the brands in the store are
\* asked for
CompleteStart ==
    /\ stage = "complete_ready"
    /\ \E db_brands \in SUBSET {"dior"} :
          LET missing_fragrances == not_existing(fragrances, store.fragrances)
          IN /\ store' = [store EXCEPT !.requests = Append(@, Get_("id", "ok"))]
             /\ IF missing_fragrances = <<>>
                THEN /\ db_brands = {}
                     /\ report' = [result |-> <<Cardinality(store.fragrances)>>]
                     /\ importer' = importer
                     /\ stage' = "complete_done"
                ELSE /\ importer' = [missing_fragrances |-> missing_fragrances,
                                     db_brands |-> db_brands, i |-> 0,
                                     imported |-> 0, failed |-> 0, error_details |-> <<>>]
                     /\ report' = report
                     /\ stage' = "complete_posting"
    /\ UNCHANGED <<sources, input, fragrances>>

\* complete_import, one pass of the loop: a record without brand_id, name
\* or id, or of a brand the store does not hold, is skipped and counted as
\* failed; any other is posted alone, and a request that raises is not caught
CompletePost ==
    /\ stage = "complete_posting"
    /\ importer.i < Len(importer.missing_fragrances)
    /\ LET fragrance == importer.missing_fragrances[importer.i + 1]
       IN IF missing_required(fragrance)
          THEN /\ importer' = [importer EXCEPT !.i = @ + 1, !.failed = @ + 1]
               /\ UNCHANGED <<store, stage>>
          ELSE IF fragrance["brand_id"] \notin importer.db_brands
          THEN /\ importer' = [importer EXCEPT
                                 !.i = @ + 1, !.failed = @ + 1,
                                 !.error_details =
                                    Append(@, "Missing brand: " \o fragrance["brand_id"])]
               /\ UNCHANGED <<store, stage>>
          ELSE \E outcome \in {"ok", "status", "exception"} :
                 /\ store' = Posted(<<import_record(fragrance)>>, outcome)
                 /\ IF outcome = "exception"
                    THEN /\ importer' = importer @@ [raised |-> "RequestException"]
                         /\ stage' = "complete_raised"
                    ELSE /\ importer' = [importer EXCEPT
                                           !.i = @ + 1,
                                           !.imported = IF outcome = "ok" THEN @ + 1 ELSE @,
                                           !.failed = IF outcome = "ok" THEN @ ELSE @ + 1,
                                           !.error_details =
                                              IF outcome = "ok" THEN @
                                              ELSE Append(@, fragrance["id"] \o ": status")]
                         /\ stage' = stage
    /\ UNCHANGED <<sources, input, fragrances, report>>

\* complete_import after the loop: the store is asked for its count; the
\* count and the number of source records are returned, the error details
\* saved
CompleteFinish ==
    /\ stage = "complete_posting"
    /\ importer.i >= Len(importer.missing_fragrances)
    /\ store' = [store EXCEPT !.requests = Append(@, Get_("count", "ok"))]
    /\ report' = [result |-> <<Cardinality(store.fragrances), Len(fragrances)>>,
                  imported |-> importer.imported,
                  failed |-> importer.failed,
                  error_details |-> importer.error_details]
    /\ stage' = "complete_done"
    /\ UNCHANGED <<sources, input, fragrances, importer>>

\* kaggle_processor.main: the priority score of every row of the file
CalculatePriorityScores ==
    /\ stage = "csv_loaded"
    /\ input' = fragrances
    /\ fragrances' = [i \in 1..Len(fragrances) |->
                        fragrances[i] @@
                        ("priority_score" :> calculate_priority_score(fragrances[i], config))]
    /\ stage' = "scored"
    /\ UNCHANGED <<sources, report, store, importer>>

\* kaggle_processor.main: the rows without a score are filtered out and the
\* top rows selected
SelectTop ==
    /\ stage = "scored"
    /\ input' = fragrances
    /\ fragrances' = nlargest(top_n, df_valid(fragrances))
    /\ stage' = "selected"
    /\ report' = [valid |-> Len(df_valid(fragrances)),
                  selected |-> Len(nlargest(top_n, df_valid(fragrances)))]
    /\ UNCHANGED <<sources, store, importer>>

\* one call of calculate_priority_score, on any row of the file, with the
\* configuration; the call and what it returned are appended to the log
ScoreCall ==
    /\ stage = "csv_loaded"
    /\ Len(report) < MaxCalls
    /\ \E i \in 1..Len(fragrances) :
          report' = Append(report,
                           [row |-> fragrances[i],
                            score |-> calculate_priority_score(fragrances[i], config)])
    /\ UNCHANGED <<sources, input, fragrances, stage, store, importer>>

\* kaggle_processor.main, the scoring step, with the brand table of the
\* configuration file
ScoreWithTable ==
    /\ stage \in {"qualified", "prioritized"}
    /\ report = <<>>
    /\ report' = [i \in 1..Len(input) |->
                    calculate_priority_score(input[i], sources.brands)]
    /\ UNCHANGED <<sources, input, fragrances, stage, store, importer>>

\* 02_gap_analyzer.main, the prioritisation step, with the same file
PrioritizeByBrandTier ==
    /\ stage = "qualified"
    /\ fragrances' = prioritize_by_brand_tier(fragrances, sources.brands)
    /\ stage' = "prioritized"
    /\ UNCHANGED <<sources, input, report, store, importer>>

\* one monitoring cycle, run by the scheduler or by run_single_cycle
ExecuteMonitoringCycle ==
    /\ stage = "monitoring"
    /\ report.monitoring_stats.total_runs < MaxCycles
    /\ \E raises \in {"none", "detect", "filter", "import", "maintenance", "metrics"} :
       \E found \in 0..1 : \E quality \in 0..found : \E notified \in BOOLEAN :
          LET cycle == execute_monitoring_cycle(report.monitoring_stats,
                          [raises |-> raises, found |-> found, quality |-> quality,
                           notified |-> notified])
          IN /\ report' = [monitoring_stats |-> cycle.monitoring_stats,
                           results |-> Append(report.results, cycle.outcome)]
             /\ stage' = IF "raised" \in DOMAIN cycle.outcome
                         THEN "monitoring_raised" ELSE "monitoring"
    /\ UNCHANGED <<sources, input, fragrances, store, importer>>

\* transform_fragrance_for_db called on every record of a file: the
\* function works on a copy, so the records it was given are after the
\* call what they were before
TransformForDb ==
    /\ stage = "pipeline_records"
    /\ input' = fragrances
    /\ fragrances' = [i \in 1..Len(fragrances) |->
                        transform_fragrance_for_db(fragrances[i])]
    /\ stage' = "db_records"
    /\ UNCHANGED <<sources, report, store, importer>>

(***************************************************************************)
(* Slug generation: one brand and one perfume text, given to each of the   *)
(* three collection paths.                                                 *)
(***************************************************************************)
NameAlphabet == {"a", "B", "1", " ", "-", "'", "ò"}

RECURSIVE TextsOfLen(_)
TextsOfLen(n) ==
    IF n = 0 THEN {""}
    ELSE {t \o c : t \in TextsOfLen(n - 1), c \in NameAlphabet}

Texts == UNION {TextsOfLen(n) : n \in 0..MaxLen}

PerfumeTexts == Texts \cup {"Acqua di Giò", "Yves Saint Laurent"}

BrandTexts == {"", "a", "B", "ò", "-", "Yves Saint Laurent"}

KaggleRow(brand, perfume, gender) ==
    [Brand |-> brand, Perfume |-> perfume, Gender |-> gender,
     RatingValue |-> <<42>>, RatingCount |-> <<100>>, Year |-> <<2015>>,
     Top |-> "", Middle |-> "", Base |-> "", Perfumer1 |-> "unknown", url |-> "",
     mainaccords |-> <<"woody", "", "", "", "">>, priority_score |-> <<0>>]

Item(brand, name, gender) == [brand |-> brand, name |-> name, gender |-> gender]

SlugInit ==
    /\ \E b \in BrandTexts, n \in PerfumeTexts :
          sources = [kaggle |-> <<KaggleRow(b, n, "unisex")>>,
                     scrapy |-> <<Item(b, n, "unisex")>>,
                     manual |-> <<Item(b, n, "unisex")>>,
                     pages |-> <<>>]
    /\ input = <<>>
    /\ fragrances = <<>>
    /\ stage = "source"
    /\ report = <<>>
    /\ store = NoStore
    /\ importer = NoImport

SlugNext ==
    \/ ScrapyNormalize
    \/ KaggleClean
    \/ MergeAllDatasets
    \/ Normalize
    \/ RemoveDuplicates
    \/ FixValidationErrors

SpecSlug == SlugInit /\ [][SlugNext]_vars

\* C7: every generated slug and brand_id matches ^[a-z0-9]+(-[a-z0-9]+)*$:
\* those of the Kaggle cleaner, of the scrapy normalizer, of the manual
\* collection merge, and the slugs fix_validation_errors fills in.
C7_SlugsWellFormed ==
    /\ stage = "cleaned" =>
          \A i \in 1..Len(fragrances) :
              WellFormedSlug(fragrances[i].slug) /\ WellFormedSlug(fragrances[i].brand_id)
    /\ stage = "scraped" =>
          \A i \in 1..Len(sources.scrapy) :
              "slug" \in DOMAIN sources.scrapy[i] =>
                  /\ WellFormedSlug(sources.scrapy[i]["slug"])
                  /\ WellFormedSlug(sources.scrapy[i]["brand_id"])
    /\ stage = "merged" =>
          \A i \in 1..Len(fragrances) :
              "slug" \in DOMAIN fragrances[i] =>
                  /\ WellFormedSlug(fragrances[i]["slug"])
                  /\ WellFormedSlug(fragrances[i]["brand_id"])
    /\ stage = "fixed" =>
          \A i \in 1..Len(fragrances) : WellFormedSlug(fragrances[i]["slug"])

\* C8: every generator computes the slug function of the specification
\* (diacritics stripped, lower-cased, runs outside [a-z0-9] hyphenated,
\* hyphens trimmed) of the text it is given.
C8_SlugGeneratorsAgree ==
    /\ stage = "cleaned" =>
          \A i \in 1..Len(fragrances) :
              /\ fragrances[i].slug = TestSlug(fragrances[i].name)
              /\ fragrances[i].brand_id = TestSlug(fragrances[i].brand_name)
    /\ stage = "scraped" =>
          \A i \in 1..Len(sources.scrapy) :
              "slug" \in DOMAIN sources.scrapy[i] =>
                  /\ sources.scrapy[i]["slug"] = TestSlug(sources.scrapy[i]["name"])
                  /\ sources.scrapy[i]["brand_id"] = TestSlug(sources.scrapy[i]["brand"])
    /\ stage = "merged" =>
          \A i \in 1..Len(fragrances) :
              "scraped_source" \in DOMAIN fragrances[i] /\ "slug" \in DOMAIN fragrances[i] =>
                  /\ fragrances[i]["slug"] = TestSlug(fragrances[i]["name"])
                  /\ fragrances[i]["brand_id"] = TestSlug(fragrances[i]["brand"])
    /\ stage = "fixed" =>
          \A i \in 1..Len(fragrances) :
              fragrances[i]["slug"] = TestSlug(fragrances[i]["name"])

(***************************************************************************)
(* Gender normalization: one gender text, given to the Kaggle cleaner and  *)
(* to the scraper's page parser.                                           *)
(***************************************************************************)
GenderWords ==
    {"men", "women", "for", "only", "unisex", "blend", "men's", "and", "women's",
     "Women", "gentlemen"}

RECURSIVE GenderTextsOfLen(_)
GenderTextsOfLen(n) ==
    IF n = 0 THEN {""}
    ELSE IF n = 1 THEN GenderWords
    ELSE {t \o " " \o w : t \in GenderTextsOfLen(n - 1), w \in GenderWords}

GenderTexts == UNION {GenderTextsOfLen(n) : n \in 0..MaxGenderWords}

Page(gender) ==
    [url |-> "https://www.fragrantica.com/perfume/dior/sauvage.html",
     name |-> "Sauvage", brand |-> "Dior", gender |-> gender, has_gender |-> TRUE]

GenderInit ==
    /\ \E g \in GenderTexts :
          sources = [kaggle |-> <<KaggleRow("Dior", "Sauvage", g)>>,
                     scrapy |-> <<>>,
                     manual |-> <<>>,
                     pages |-> <<Page(g)>>]
    /\ input = <<>>
    /\ fragrances = <<>>
    /\ stage = "source"
    /\ report = <<>>
    /\ store = NoStore
    /\ importer = NoImport

GenderNext ==
    \/ ParseHtml
    \/ KaggleClean

SpecGender == GenderInit /\ [][GenderNext]_vars

IsWordChar(c) ==
    c \in CharsOf(UpperLetters) \cup CharsOf(LowerLetters) \cup CharsOf(Digits) \cup {"_"}

\* re.search(r'\bword\b', s)
HasWord(s, word) ==
    \E i \in 1..(Len(s) - Len(word) + 1) :
        /\ SubSeq(s, i, i + Len(word) - 1) = word
        /\ i = 1 \/ ~IsWordChar(Char(s, i - 1))
        /\ i + Len(word) - 1 = Len(s) \/ ~IsWordChar(Char(s, i + Len(word)))

\* the rule of the specification: 'women' and no standalone 'men' is women,
\* standalone 'men' and no 'women' is men, everything else is unisex
GenderRule(text) ==
    LET folded == Lower(text) IN
    IF Contains(folded, "women") /\ ~HasWord(folded, "men") THEN "women"
    ELSE IF HasWord(folded, "men") /\ ~Contains(folded, "women") THEN "men"
    ELSE "unisex"

\* C6: every gender normalizer of the pipeline (the Kaggle cleaner and the
\* scraper) classifies its input by the word-boundary rule; 'for women only'
\* gives women, 'unisex blend' unisex, "men's and women's" unisex.
C6_GenderNormalizersFollowRule ==
    /\ stage = "cleaned" =>
          \A i \in 1..Len(fragrances) :
              fragrances[i].gender = GenderRule(input[i].Gender)
    /\ stage \in {"parsed", "cleaned"} =>
          \A i \in 1..Len(sources.scrapy) :
              sources.scrapy[i].gender = GenderRule(sources.pages[i].gender)

(***************************************************************************)
(* Deduplication: fix_data_for_import.main run on a loaded dataset.        *)
(***************************************************************************)
Identity(brand_id, name, slug) ==
    [id |-> MakeId(brand_id, slug), brand_id |-> brand_id, name |-> name,
     slug |-> slug, gender |-> "men"]

\* the quality fields a loaded record may carry
QualityProfiles ==
    { <<>>,
      [rating_value |-> <<0>>],
      [fragrantica_url |-> "https://www.fragrantica.com/perfume/x.html"],
      [perfumers |-> <<"Francois Demachy">>],
      [top_notes |-> "bergamot"],
      [base_notes |-> "ambroxan"],
      [rating_count |-> <<19581>>],
      [rating_value |-> <<42>>, rating_count |-> <<19581>>, top_notes |-> "bergamot",
       middle_notes |-> "lavender", base_notes |-> "ambroxan",
       perfumers |-> <<"Francois Demachy">>,
       fragrantica_url |-> "https://www.fragrantica.com/perfume/x.html"] }

\* one identity with every profile, and a second one bare or complete
LoadedRecords ==
    {Identity("dior", "Sauvage", "sauvage") @@ q : q \in QualityProfiles}
    \cup {Identity("chanel", "No 5", "no-5") @@ q :
            q \in {p \in QualityProfiles : DOMAIN p = {} \/ "middle_notes" \in DOMAIN p}}

RECURSIVE SeqsOfLen(_, _)
SeqsOfLen(S, n) ==
    IF n = 0 THEN {<<>>}
    ELSE {Append(t, x) : t \in SeqsOfLen(S, n - 1), x \in S}

SeqsUpTo(S, n) == UNION {SeqsOfLen(S, k) : k \in 0..n}

DedupInit ==
    /\ sources = NoSources
    /\ input = <<>>
    /\ fragrances \in SeqsUpTo(LoadedRecords, MaxRecords)
    /\ stage = "loaded"
    /\ report = <<>>
    /\ store = NoStore
    /\ importer = NoImport

DedupNext ==
    \/ Normalize
    \/ RemoveDuplicates
    \/ FixValidationErrors

SpecDedup == DedupInit /\ [][DedupNext]_vars

\* C1: after deduplication no two records of the dataset share an id,
\* whatever the input (empty, equal ids in any positions and multiplicity).
C1_UniqueIds ==
    stage \in {"deduplicated", "fixed"} =>
        \A i, j \in 1..Len(fragrances) :
            i # j => fragrances[i]["id"] # fragrances[j]["id"]

\* the case of C1: the input held an id twice with another id in between,
\* and deduplication has run
C1_Witness ==
    /\ stage = "deduplicated"
    /\ Len(input) = 3
    /\ input[1]["id"] = input[3]["id"]
    /\ input[1]["id"] # input[2]["id"]
    /\ Len(fragrances) = 2

\* C23: deduplication only selects among the records it is given: every
\* record of the output is one of the input, every id of the input is the id
\* of exactly one record of the output, and a record whose id occurs once in
\* the input is in the output as it was.
C23_SelectsAmongInput ==
    stage = "deduplicated" =>
        /\ \A j \in 1..Len(fragrances) :
              \E i \in 1..Len(input) : fragrances[j] = input[i]
        /\ \A i \in 1..Len(input) :
              /\ Cardinality({j \in 1..Len(fragrances) :
                                 fragrances[j]["id"] = input[i]["id"]}) = 1
              /\ Cardinality({k \in 1..Len(input) :
                                 input[k]["id"] = input[i]["id"]}) = 1 =>
                    \E j \in 1..Len(fragrances) : fragrances[j] = input[i]

\* an input with an id held by two different records and another id held
\* once
C23_Witness ==
    /\ stage = "deduplicated"
    /\ Len(input) = 3
    /\ input[1]["id"] = input[2]["id"]
    /\ input[1] # input[2]
    /\ input[3]["id"] # input[1]["id"]
    /\ Len(fragrances) = 2
    /\ fragrances[1] = input[2]
    /\ fragrances[2] = input[3]

\* the quality score as the amended C5 states it: a rating value or rating
\* count counts when present and not zero
AmendedQuality(r) ==
      (IF r["rating_value"] # None /\ r["rating_value"] # <<0>> THEN 10 ELSE 0)
    + (IF r["rating_count"] # None /\ r["rating_count"] # <<0>> THEN 10 ELSE 0)
    + (IF r["top_notes"] # "" THEN 5 ELSE 0)
    + (IF r["middle_notes"] # "" THEN 5 ELSE 0)
    + (IF r["base_notes"] # "" THEN 5 ELSE 0)
    + (IF r["perfumers"] # <<>> THEN 3 ELSE 0)
    + (IF r["fragrantica_url"] # "" THEN 1 ELSE 0)

\* the quality score as C5 states it: a rating value or rating count counts
\* when present
StatedQuality(r) ==
      (IF r["rating_value"] # None THEN 10 ELSE 0)
    + (IF r["rating_count"] # None THEN 10 ELSE 0)
    + (IF r["top_notes"] # "" THEN 5 ELSE 0)
    + (IF r["middle_notes"] # "" THEN 5 ELSE 0)
    + (IF r["base_notes"] # "" THEN 5 ELSE 0)
    + (IF r["perfumers"] # <<>> THEN 3 ELSE 0)
    + (IF r["fragrantica_url"] # "" THEN 1 ELSE 0)

\* the positions in the input of the records with a given id
Positions(frs, id) == {i \in 1..Len(frs) : frs[i]["id"] = id}

\* C5 as amended: of every group of two or more records sharing an id the
\* record kept has the maximal quality score of the group, where a rating
\* value and a rating count score only when present and not zero, and among
\* the records of maximal score it is the first of the input.
C5_KeptIsFirstBest ==
    stage = "deduplicated" =>
        \A k \in 1..Len(fragrances) :
            LET ps == Positions(input, fragrances[k]["id"])
                first == CHOOSE i \in ps :
                    /\ \A j \in ps : AmendedQuality(input[j]) <= AmendedQuality(input[i])
                    /\ \A j \in ps : j < i => AmendedQuality(input[j]) < AmendedQuality(input[i])
            IN Cardinality(ps) >= 2 => fragrances[k] = input[first]

\* C5 as stated: the same with a rating value or rating count scoring
\* whenever present.
C5_Stated ==
    stage = "deduplicated" =>
        \A k \in 1..Len(fragrances) :
            LET ps == Positions(input, fragrances[k]["id"])
                first == CHOOSE i \in ps :
                    /\ \A j \in ps : StatedQuality(input[j]) <= StatedQuality(input[i])
                    /\ \A j \in ps : j < i => StatedQuality(input[j]) < StatedQuality(input[i])
            IN Cardinality(ps) >= 2 => fragrances[k] = input[first]

\* the case of C5: a group of three whose two best records tie and differ,
\* the lesser one first
C5_Witness ==
    /\ stage = "deduplicated"
    /\ Len(input) = 3
    /\ Len(fragrances) = 1
    /\ AmendedQuality(input[1]) < AmendedQuality(input[2])
    /\ AmendedQuality(input[2]) = AmendedQuality(input[3])
    /\ input[2] # input[3]
    /\ fragrances[1] = input[2]

(***************************************************************************)
(* Duplicate names: fix_duplicate_names run on a dataset whose ids are     *)
(* pairwise distinct (it is read after deduplication), and whose names     *)
(* have lost the concentration and version words their ids still carry.    *)
(***************************************************************************)
Named(name, id) ==
    [id |-> id, brand_id |-> "dior", name |-> name, slug |-> Split(id, "__")[2],
     gender |-> "men"]

CompatibleRecords ==
    { Named("Sauvage", "dior__sauvage"),
      Named("Sauvage", "dior__sauvage-homme"),
      Named("Sauvage", "dior__sauvage-eau-de-parfum"),
      Named("Sauvage", "dior__sauvage-eau-de-toilette"),
      Named("Sauvage", "dior__eau-sauvage-eau-de-parfum"),
      Named("Sauvage", "dior__sauvage-2019"),
      Named("Sauvage", "dior__sauvage-intense"),
      Named("Sauvage", "dior__sauvage-parfum-2019"),
      Named("Sauvage", "dior__sauvage-2015-sport"),
      Named("Sauvage", "dior__sauvage-elixir-extrait"),
      Named("Sauvage EDP", "dior__sauvage-edp"),
      Named("Sauvage (2)", "dior__sauvage-2") }

DistinctIds(frs) ==
    \A i, j \in 1..Len(frs) : i # j => frs[i]["id"] # frs[j]["id"]

NamesInit ==
    /\ sources = NoSources
    /\ input = <<>>
    /\ fragrances \in {frs \in SeqsUpTo(CompatibleRecords, MaxRecords) : DistinctIds(frs)}
    /\ stage = "compatible"
    /\ report = <<>>
    /\ store = NoStore
    /\ importer = NoImport

NamesNext == FixDuplicateNames

SpecNames == NamesInit /\ [][NamesNext]_vars

\* C2: after fix_duplicate_names no two records share (brand_id, name).
C2_UniqueNames ==
    stage = "named" =>
        \A i, j \in 1..Len(fragrances) :
            i # j => NameKey(fragrances[i]) # NameKey(fragrances[j])

\* the record of the input a record of the output was made from (ids are
\* pairwise distinct)
Origin(r) == input[CHOOSE j \in 1..Len(input) : input[j]["id"] = r["id"]]

Amended(r) == r["name"] # Origin(r)["name"]

\* C4 as stated: a member whose name was amended has its id amended with
\* it, so that the id is brand_id + '__' + slug of the new name.
C4_Stated ==
    stage = "named" =>
        \A k \in 1..Len(fragrances) :
            Amended(fragrances[k]) =>
                fragrances[k]["id"] =
                    MakeId(fragrances[k]["brand_id"], Slugify(fragrances[k]["name"]))

\* C4 as amended: disambiguation amends the name only; every record keeps
\* the id, brand_id and slug (and every other field) it had, and the new
\* name is the old one with the token or suffix appended.
C4_OnlyNameAmended ==
    stage = "named" =>
        /\ Len(fragrances) = Len(input)
        /\ \A k \in 1..Len(fragrances) :
              /\ \E j \in 1..Len(input) : input[j]["id"] = fragrances[k]["id"]
              /\ fragrances[k] = [Origin(fragrances[k]) EXCEPT !["name"] = fragrances[k]["name"]]
              /\ StartsWith(fragrances[k]["name"], Origin(fragrances[k])["name"])

\* the case of C4: a member of a duplicate group got a token appended and
\* another one a positional suffix
C4_Witness ==
    /\ stage = "named"
    /\ \E k \in 1..Len(fragrances) :
          fragrances[k]["name"] = Origin(fragrances[k])["name"] \o " EDP"
    /\ \E k \in 1..Len(fragrances) :
          fragrances[k]["name"] = Origin(fragrances[k])["name"] \o " (2)"

\* the tokens of each kind the part of an id after '__' holds
ConcentrationTokens(name_part) ==
    {Concentrations[k][2] :
        k \in {n \in 1..Len(Concentrations) : Contains(name_part, Concentrations[n][1])}}

YearTokens(name_part) ==
    {SubSeq(name_part, i, i + 3) :
        i \in {n \in 1..(Len(name_part) - 3) :
                 /\ SubSeq(name_part, n, n + 1) \in {"19", "20"}
                 /\ IsDigit(Char(name_part, n + 2))
                 /\ IsDigit(Char(name_part, n + 3))}}

VersionTokens(name_part) ==
    {Title(w) : w \in {"intense", "extreme", "absolu", "noir", "sport", "aqua",
                       "fresh", "elixir"} \cap
                      {VersionWords[k] :
                         k \in {n \in 1..Len(VersionWords) :
                                  Contains(name_part, VersionWords[n])}}}

\* the name carries the token: appended now, or already in it
Carries(r, tokens) ==
    \E t \in tokens :
        \/ r["name"] = Origin(r)["name"] \o " " \o t
        \/ Contains(Origin(r)["name"], t) /\ r["name"] = Origin(r)["name"]

Numbered(r) ==
    \E n \in 2..Len(input) :
        r["name"] = Origin(r)["name"] \o " (" \o Decimal(n) \o ")"

\* C24: a member of a duplicate-name group takes a concentration token when
\* its id holds one, else a year when it holds one, else a version token
\* when it holds one; a positional number is given only to a member whose
\* id holds none of the three.
C24_TokenPrecedence ==
    stage = "named" =>
        \A k \in 1..Len(fragrances) :
            LET r == fragrances[k]
                name_part == Split(Origin(r)["id"], "__")[2]
                c == ConcentrationTokens(name_part)
                y == YearTokens(name_part)
                v == VersionTokens(name_part)
            IN Len(name_group(input, NameKey(Origin(r)))) > 1 =>
                /\ c # {} => Carries(r, c)
                /\ c = {} /\ y # {} => Carries(r, y)
                /\ c = {} /\ y = {} /\ v # {} => Carries(r, v)
                /\ Numbered(r) => c = {} /\ y = {} /\ v = {}

\* a group whose members hold a concentration and a year, a year and a
\* version word, and none of the three
C24_Witness ==
    /\ stage = "named"
    /\ Len(input) = 3
    /\ input[1]["id"] = "dior__sauvage-parfum-2019"
    /\ input[2]["id"] = "dior__sauvage-homme"
    /\ input[3]["id"] = "dior__sauvage-2015-sport"
    /\ fragrances[1]["name"] = "Sauvage Parfum"
    /\ fragrances[2]["name"] = "Sauvage (2)"
    /\ fragrances[3]["name"] = "Sauvage 2015"

(***************************************************************************)
(* The Kaggle path from the table to the named dataset: rows of one brand  *)
(* whose names carry a concentration, some of them twice.                  *)
(***************************************************************************)
PipelinePerfumes ==
    { "Sauvage Eau de Parfum", "Sauvage Eau de Toilette", "Sauvage Parfum",
      "Dior Sauvage Eau de Parfum", "sauvage-eau-de-toilette" }

PipelineRows == {KaggleRow("Dior", n, "for men") : n \in PipelinePerfumes}

PipelineInit ==
    /\ sources \in {[NoSources EXCEPT !.kaggle = rows] :
                      rows \in SeqsUpTo(PipelineRows, MaxRecords) \ {<<>>}}
    /\ input = <<>>
    /\ fragrances = <<>>
    /\ stage = "source"
    /\ report = <<>>
    /\ store = NoStore
    /\ importer = NoImport

PipelineNext ==
    \/ KaggleClean
    \/ MergeAllDatasets
    \/ Normalize
    \/ RemoveDuplicates
    \/ FixValidationErrors
    \/ FixDuplicateNames

SpecPipeline == PipelineInit /\ [][PipelineNext]_vars

ConcentrationNames == {"Eau de Parfum", "Eau de Toilette", "Parfum"}

\* two rows of one brand whose names are one stem followed by two
\* different concentrations
DifferOnlyByConcentration(r1, r2) ==
    /\ r1.Brand = r2.Brand
    /\ \E c1, c2 \in ConcentrationNames :
          /\ c1 # c2
          /\ r1.Perfume = "Sauvage " \o c1
          /\ r2.Perfume = "Sauvage " \o c2

\* the id cleaning gives a row
IdOfRow(row) == MakeId(Slugify(row.Brand), Slugify(row.Perfume))

RecordsWithId(id) == {k \in 1..Len(fragrances) : fragrances[k]["id"] = id}

\* C3: two rows of one brand whose names differ only by concentration are,
\* after cleaning and after every later step up to duplicate-name fixing,
\* two records with two different ids: each row has exactly one record once
\* deduplication has run (at least one before), and the two never coincide.
C3_ConcentrationsSurvive ==
    stage \in {"cleaned", "merged", "normalized", "deduplicated", "fixed", "named"} =>
        \A i, j \in 1..Len(sources.kaggle) :
            DifferOnlyByConcentration(sources.kaggle[i], sources.kaggle[j]) =>
                LET a == IdOfRow(sources.kaggle[i])
                    b == IdOfRow(sources.kaggle[j])
                IN /\ a # b
                   /\ RecordsWithId(a) # {}
                   /\ RecordsWithId(b) # {}
                   /\ stage \in {"deduplicated", "fixed", "named"} =>
                         /\ Cardinality(RecordsWithId(a)) = 1
                         /\ Cardinality(RecordsWithId(b)) = 1

\* the case of C3: the table held an Eau de Parfum and an Eau de Toilette of
\* one brand and a second listing of one of them, deduplication removed
\* the second listing and duplicate-name fixing has run
C3_Witness ==
    /\ stage = "named"
    /\ \E i, j \in 1..Len(sources.kaggle) :
          DifferOnlyByConcentration(sources.kaggle[i], sources.kaggle[j])
    /\ Len(fragrances) = 2
    /\ Len(sources.kaggle) = 3

(***************************************************************************)
(* Validation: validate_fragrance_data called on one record, whose fields  *)
(* may be absent, empty, out of range or inconsistent.                     *)
(***************************************************************************)
\* a field that may be absent
Optional(key, values) == {<<>>} \cup {[k \in {key} |-> v] : v \in values}

ValidationRecords ==
    { id @@ brand_id @@ name @@ slug @@ gender @@ accords @@ rating @@ price :
        id \in Optional("id", {"", "dior__sauvage", "dior__sauvage-edp", "sauvage"}),
        brand_id \in Optional("brand_id", {"", "dior"}),
        name \in Optional("name", {"Sauvage"}),
        slug \in Optional("slug", {"sauvage"}),
        gender \in Optional("gender", {"", "men", "male"}),
        accords \in Optional("main_accords", {<<"woody">>}) \cup Optional("accords", {<<"woody">>}),
        rating \in Optional("rating_value", {None, <<-1>>, <<0>>, <<42>>, <<50>>, <<51>>, <<70>>}),
        price \in Optional("sample_price_usd", {None, <<0>>, <<16>>, <<100>>, <<101>>}) }

ValidateInit ==
    /\ sources = NoSources
    /\ input = <<>>
    /\ fragrances \in {<<r>> : r \in ValidationRecords}
    /\ stage = "ready"
    /\ report = <<>>
    /\ store = NoStore
    /\ importer = NoImport

ValidateNext == ValidateFragrances

SpecValidate == ValidateInit /\ [][ValidateNext]_vars

\* the constraints a record violates, each independent of the others: a
\* required field absent or empty, a gender outside the enumeration, a
\* rating or a price out of range, an id that does not start with its
\* brand_id and the separator
Violations(r) ==
    {f \in Range(required_fields) : f \notin DOMAIN r \/ r[f] = ""}
    \cup {"gender in men/women/unisex" : x \in
            {g \in {Get(r, "gender", "")} : g # "" /\ g \notin {"men", "women", "unisex"}}}
    \cup {"rating_value in [0, 5]" : x \in
            {v \in {Get(r, "rating_value", None)} : v # None /\ (v[1] < 0 \/ v[1] > 50)}}
    \cup {"sample_price_usd in [0, 100]" : x \in
            {v \in {Get(r, "sample_price_usd", None)} : v # None /\ (v[1] < 0 \/ v[1] > 100)}}
    \cup {"id starts with brand_id__" : x \in
            {b \in {Get(r, "brand_id", "")} :
                b # "" /\ Get(r, "id", "") # "" /\ ~StartsWith(r["id"], b \o "__")}}

\* C9: validation reports every violation in one pass: a record with k
\* independent violations is invalid with an error list of at least k
\* entries, and a record with none of them and its accords is valid.
C9_AllViolationsReported ==
    stage = "validated" =>
        \A i \in 1..Len(input) :
            /\ Len(report[i].errors) >= Cardinality(Violations(input[i]))
            /\ report[i].is_valid = (report[i].errors = <<>>)
            /\ Violations(input[i]) # {} => ~report[i].is_valid

\* the case of C9: gender missing, rating_value 7.0 and an id that does not
\* start with its brand_id, reported as three errors
C9_Witness ==
    /\ stage = "validated"
    /\ "gender" \notin DOMAIN input[1]
    /\ Get(input[1], "rating_value", None) = <<70>>
    /\ Get(input[1], "id", "") = "sauvage"
    /\ Get(input[1], "brand_id", "") = "dior"
    /\ Violations(input[1]) = {"gender", "rating_value in [0, 5]", "id starts with brand_id__"}
    /\ Len(report[1].errors) = 3

IdErrorReported(errors) ==
    \E k \in 1..Len(errors) : StartsWith(errors[k], "ID format mismatch")

\* C10 as stated: every record whose id is not brand_id + '__' + slug of its
\* own brand_id and slug gets a violation reported for it.
C10_Stated ==
    stage = "validated" =>
        \A i \in 1..Len(input) :
            ( /\ {"id", "brand_id", "slug"} \subseteq DOMAIN input[i]
              /\ input[i]["id"] # MakeId(input[i]["brand_id"], input[i]["slug"]) )
            => IdErrorReported(report[i].errors)

\* C10 as amended: the id check reports a violation exactly for the records
\* that have an id and a brand_id and whose id does not start with
\* brand_id + '__'; what follows the separator is not compared with slug.
C10_IdPrefixChecked ==
    stage = "validated" =>
        \A i \in 1..Len(input) :
            IdErrorReported(report[i].errors)
            <=> ( /\ {"id", "brand_id"} \subseteq DOMAIN input[i]
                  /\ ~StartsWith(input[i]["id"], input[i]["brand_id"] \o "__") )

\* the case of C10: one record whose id lacks the brand_id prefix, reported;
\* reached as well by a record whose id has the prefix and another slug
C10_Witness ==
    /\ stage = "validated"
    /\ Get(input[1], "id", "") = "sauvage"
    /\ Get(input[1], "brand_id", "") = "dior"
    /\ Get(input[1], "slug", "") = "sauvage"
    /\ IdErrorReported(report[1].errors)

\* the conditions C11 lists: the five required fields non-empty, the gender
\* in the enumeration, rating and price in range when present, the id check
MeetsStatedConditions(r) ==
    /\ \A f \in Range(required_fields) : f \in DOMAIN r /\ r[f] # ""
    /\ r["gender"] \in {"men", "women", "unisex"}
    /\ Get(r, "rating_value", None) # None =>
          (0 <= r["rating_value"][1] /\ r["rating_value"][1] <= 50)
    /\ Get(r, "sample_price_usd", None) # None =>
          (0 <= r["sample_price_usd"][1] /\ r["sample_price_usd"][1] <= 100)
    /\ StartsWith(r["id"], r["brand_id"] \o "__")

\* C11 as stated: a record is valid, with an empty error list, exactly when
\* the five required fields are non-empty, the gender is men, women or
\* unisex, rating and price are in range when present and the id check
\* passes.
C11_Stated ==
    stage = "validated" =>
        \A i \in 1..Len(input) :
            /\ report[i].is_valid <=> MeetsStatedConditions(input[i])
            /\ MeetsStatedConditions(input[i]) => report[i].errors = <<>>

\* C11 as amended: a record is valid, with an empty error list, exactly when
\* it meets the stated conditions and carries a main_accords or an accords
\* field.
C11_AcceptedExactly ==
    stage = "validated" =>
        \A i \in 1..Len(input) :
            LET accepted == /\ MeetsStatedConditions(input[i])
                            /\ ("main_accords" \in DOMAIN input[i] \/ "accords" \in DOMAIN input[i])
            IN /\ report[i].is_valid <=> accepted
               /\ accepted => report[i].errors = <<>>

\* the case of C11: a record that meets every condition, rating and price
\* included, and is returned valid
C11_Witness ==
    /\ stage = "validated"
    /\ MeetsStatedConditions(input[1])
    /\ Get(input[1], "rating_value", None) = <<42>>
    /\ Get(input[1], "sample_price_usd", None) = <<16>>
    /\ "accords" \in DOMAIN input[1]
    /\ report[1] = [is_valid |-> TRUE, errors |-> <<>>]

(***************************************************************************)
(* The import: import_fragrances and import_pipeline_data of the database  *)
(* importer, bulk_import, complete_import and create_fragrance_import_sql  *)
(* run on the same fragrance files against a store that holds none of the  *)
(* records or the first one.                                               *)
(***************************************************************************)
MaxImport == 5

\* the k-th record of a fragrance file, in pipeline form: one that passes
\* validation, one with a gender the importer rejects, one whose id is null
ImportRecord(k, kind) ==
    [id |-> IF kind = "null_id" THEN Null ELSE "dior__f" \o StrNat(k),
     brand_id |-> "dior",
     brand_name |-> "Dior",
     name |-> "F" \o StrNat(k),
     slug |-> "f" \o StrNat(k),
     gender |-> IF kind = "invalid" THEN "male" ELSE "men",
     accords |-> <<"woody">>,
     top_notes |-> "bergamot, pepper",
     rating_value |-> <<42>>,
     year |-> <<2015>>,
     priority_score |-> <<k>>]

ImportFiles ==
    UNION {{[k \in 1..n |-> ImportRecord(k, kinds[k])] :
              kinds \in [1..n -> {"valid", "invalid", "null_id"}]} : n \in 0..MaxImport}

ImportInit ==
    /\ sources = NoSources
    /\ input = <<>>
    /\ fragrances \in ImportFiles
    /\ stage \in {"import_ready", "bulk_ready", "complete_ready", "sql_ready"}
    /\ report = <<>>
    /\ store \in {[fragrances |-> ids, requests |-> <<>>] : ids \in SUBSET {"dior__f1"}}
    /\ importer = [import_stats |-> ZeroStats, brands_imported |-> 0]

ImportNext ==
    \/ ImportValidate
    \/ ImportCheckExisting
    \/ BatchUpsert
    \/ ImportReturn
    \/ ImportSummary
    \/ BulkPrepare
    \/ BulkBatch
    \/ BulkVerify
    \/ CompleteStart
    \/ CompletePost
    \/ CompleteFinish
    \/ CreateImportSql

SpecImport == ImportInit /\ [][ImportNext]_vars

ImportTypeOK == stage \in {"import_ready", "import_validated", "import_raised", "upserting",
                           "import_done", "import_reported", "bulk_ready", "bulk_upserting",
                           "bulk_raised", "bulk_done", "complete_ready", "complete_posting",
                           "complete_raised", "complete_done", "sql_ready", "sql_created"}

\* the stages of a run of import_fragrances and import_pipeline_data
ImportStages ==
    {"import_ready", "import_validated", "import_raised", "upserting", "import_done",
     "import_reported"}

\* the batches the store was sent, in submission order, and how each ended
posts == SelectSeq(store.requests, LAMBDA e : e.method = "POST")

posted_batches == [k \in 1..Len(posts) |-> posts[k].batch]

\* the ids of the records of a list of batches
ids_in(batches) ==
    UNION {{batches[k][j]["id"] : j \in 1..Len(batches[k])} : k \in 1..Len(batches)}

\* C12: validation is never fatal: validate_fragrance_data returns a result
\* for every record of the file, null fields included, and a run of
\* import_fragrances never ends in an exception.
C12_ValidationNeverFatal ==
    stage \in ImportStages =>
        /\ \A k \in 1..Len(fragrances) :
              "raised" \notin DOMAIN validate_fragrance_data(fragrances[k])
        /\ stage # "import_raised"

\* C13: every record of every batch import_fragrances hands to batch_upsert
\* is the database form of a record of the file that validate_fragrance_data
\* found valid.
C13_OnlyValidSubmitted ==
    stage \in ImportStages =>
        \A k \in 1..Len(posted_batches) : \A j \in 1..Len(posted_batches[k]) :
            \E n \in 1..Len(fragrances) :
                LET v == validate_fragrance_data(fragrances[n])
                IN /\ "is_valid" \in DOMAIN v
                   /\ v.is_valid
                   /\ posted_batches[k][j] = transform_fragrance_for_db(fragrances[n])

\* a run reported with a record rejected by validation and a batch submitted
C13_Witness ==
    /\ stage = "import_reported"
    /\ posted_batches # <<>>
    /\ \E n \in 1..Len(fragrances) : ~validate_fragrance_data(fragrances[n]).is_valid

\* ceil(n / b) batches, none longer than b, all but the last of b records,
\* which put one after the other are the records
Batched(batches, records, b) ==
    /\ Len(batches) = (Len(records) + b - 1) \div b
    /\ \A k \in 1..Len(batches) :
          /\ Len(batches[k]) <= b
          /\ k < Len(batches) => Len(batches[k]) = b
    /\ Flatten(batches) = records

Records120 == [k \in 1..120 |-> k]

\* C14: batch_upsert and create_fragrance_import_sql cut n records into
\* ceil(n / b) batches of at most b records, all but the last of exactly b,
\* whose concatenation in submission order is the input; 120 records with
\* b = 50 give batches of 50, 50 and 20.
C14_Batches ==
    /\ stage \in {"import_done", "import_reported"} =>
          Batched(posted_batches, importer.new_fragrances, batch_size)
    /\ stage = "sql_created" =>
          Batched([k \in 1..Len(report) |-> report[k].batch], fragrances, batch_size)
    /\ Batched(slices(Records120, 50), Records120, 50)
    /\ [k \in 1..Len(slices(Records120, 50)) |-> Len(slices(Records120, 50)[k])] =
          <<50, 50, 20>>

\* an import that took several batches, the last of them a short one
C14_Witness ==
    /\ stage = "import_done"
    /\ Len(posted_batches) >= 2
    /\ Len(posted_batches[Len(posted_batches)]) < batch_size

\* C27: the batches of an import are posted one after another in the order
\* of the records, each once: what has been posted so far is the first
\* batches of the records to submit, whatever the store answered, and all of
\* them when the import is over.
C27_EachBatchOnce ==
    stage \in {"upserting", "import_done"} =>
        LET batches == slices(importer.new_fragrances, batch_size) IN
        /\ Len(posted_batches) <= Len(batches)
        /\ \A k \in 1..Len(posted_batches) : posted_batches[k] = batches[k]
        /\ stage = "import_done" => Len(posted_batches) = Len(batches)

\* an import whose first batch the store failed and whose second it took
C27_Witness ==
    /\ stage = "import_done"
    /\ Len(posts) >= 2
    /\ posts[1].outcome # "ok"
    /\ posts[2].outcome = "ok"
    /\ posts[1].batch # posts[2].batch

\* the store failed a batch
SomeBatchFailed == \E k \in 1..Len(posts) : posts[k].outcome # "ok"

\* C15: when the store fails a batch, by an error status or by an exception
\* of the transport, the run does not raise, and every batch has been
\* submitted when it is over.
C15_BadBatchNeverAborts ==
    SomeBatchFailed =>
        /\ stage \notin {"import_raised", "bulk_raised"}
        /\ stage \in {"import_done", "import_reported"} =>
              Len(posts) = (Len(importer.new_fragrances) + batch_size - 1) \div batch_size
        /\ stage = "bulk_done" =>
              Len(posts) = (Len(importer.cleaned_fragrances) + batch_size - 1) \div batch_size

\* the records of the batches the store accepted
accepted == SelectSeq(posts, LAMBDA e : e.outcome = "ok")

accepted_records == Flatten([k \in 1..Len(accepted) |-> accepted[k].batch])

\* C16: the number of imported fragrances in the final report counts the
\* records of the batches that succeeded and no record of a failed batch.
C16_ReportShowsFailedBatch ==
    stage = "import_reported" =>
        report.summary.fragrances_imported = Len(accepted_records)

\* the ids a final report names: the summary and the tracking record of
\* import_pipeline_data hold counts only, the error details of
\* complete_import name the id of a record whose request was refused
ids_reported ==
    IF stage = "complete_done" /\ "error_details" \in DOMAIN report
    THEN {id \in ids_in(posted_batches) :
            \E k \in 1..Len(report.error_details) :
                report.error_details[k] = id \o ": status"}
    ELSE {}

\* C17: once the batches are submitted the store is asked for the ids it
\* holds, and every id submitted that it does not hold is reported.
C17_Reconciles ==
    (stage \in {"import_reported", "complete_done"} /\ posts # <<>>) =>
        /\ \E k \in 1..Len(store.requests) :
              /\ store.requests[k].method = "GET"
              /\ store.requests[k].select = "id"
              /\ \A j \in k..Len(store.requests) : store.requests[j].method # "POST"
        /\ ids_in(posted_batches) \ store.fragrances \subseteq ids_reported

(***************************************************************************)
(* fix_data_for_import.main, steps 1 to 3, on files of one source record,  *)
(* alone or next to a complete record: the record has or lacks each of the *)
(* fields the normalizer reads under two names, and its id and name cover  *)
(* the cases of the name recovery.                                         *)
(***************************************************************************)
SourceRecords ==
    { id @@ brand_id @@ name @@ slug @@ brand @@ accords @@ score @@ rating :
        id \in Optional("id", {"", "dior__sauvage", "dior__", "sauvage", "dior__eau__sauvage"}),
        brand_id \in Optional("brand_id", {"dior"}),
        name \in Optional("name", {"", "Sauvage"}),
        slug \in Optional("slug", {"", "sauvage"}),
        brand \in Optional("brand_name", {"Dior"}) \cup Optional("brand", {"Christian Dior"}),
        accords \in {<<>>, [main_accords |-> <<"fresh">>],
                     [accords |-> <<"woody">>, main_accords |-> <<"fresh">>]},
        score \in {<<>>, [popularity_score |-> <<7>>],
                   [priority_score |-> <<5>>, popularity_score |-> <<7>>]},
        rating \in {<<>>, [rating_value |-> <<42>>, rating_count |-> <<1200>>]} }

CompleteRecord ==
    [id |-> "chanel__no-5", brand_id |-> "chanel", name |-> "No 5", slug |-> "no-5",
     brand_name |-> "Chanel", gender |-> "women", accords |-> <<"floral">>]

FixInit ==
    /\ sources = NoSources
    /\ input = <<>>
    /\ fragrances \in UNION {{<<r>>, <<r, CompleteRecord>>} : r \in SourceRecords}
    /\ stage = "loaded"
    /\ report = <<>>
    /\ store = NoStore
    /\ importer = NoImport

FixNext == Normalize \/ RemoveDuplicates \/ FixValidationErrors

SpecFix == FixInit /\ [][FixNext]_vars

\* C18: fix_validation_errors never emits a record with an empty name: a
\* record that came in without a name is in the output only with the name
\* and the slug taken from the part of its id after '__', and is dropped
\* otherwise.
C18_NoEmptyName ==
    stage = "fixed" =>
        \A i \in 1..Len(fragrances) : Get(fragrances[i], "name", "") # ""

\* C19: normalizing a normalized record changes none of its fields.
C19_NormalizeFixedPoint ==
    stage = "normalized" =>
        \A i \in 1..Len(fragrances) :
            /\ fragrances[i] = normalize_fragrance_record(input[i])
            /\ normalize_fragrance_record(fragrances[i]) = fragrances[i]

\* a source record normalized that named its brand 'brand' and its accords
\* 'main_accords' and carried no score
C19_Witness ==
    /\ stage = "normalized"
    /\ \E i \in 1..Len(input) :
          /\ "brand" \in DOMAIN input[i]
          /\ "main_accords" \in DOMAIN input[i] /\ "accords" \notin DOMAIN input[i]
          /\ "priority_score" \notin DOMAIN input[i]
          /\ "popularity_score" \notin DOMAIN input[i]
          /\ fragrances[i]["brand_name"] = "Christian Dior"
          /\ fragrances[i]["accords"] = <<"fresh">>

(***************************************************************************)
(* The scoring and selection of kaggle_processor.main on files of one row  *)
(* whose rating and review cells are missing, unparsable, zero, negative   *)
(* or positive, and on files of three rows that can be ranked.             *)
(***************************************************************************)
RatingCells ==
    [missing |-> {"", "nan"}, unparsable |-> {"abc", "4;2"}, zero |-> {"0", "0,0"},
     negative |-> {"-1,5"}, positive |-> {"4,2", "4.5", "5"}]

CountCells ==
    [missing |-> {"", "nan"}, unparsable |-> {"many", "850.0"}, zero |-> {"0"},
     negative |-> {"-3"}, positive |-> {"1", "850", "1,200"}]

CellsOf(cells, kinds) == UNION {cells[k] : k \in kinds}

Row(brand, perfume, rating, count, year) ==
    ("Brand" :> brand) @@ ("Perfume" :> perfume) @@ ("Rating Value" :> rating)
    @@ ("Rating Count" :> count) @@ ("Year" :> year)

ScoreRows ==
    {Row(brand, perfume, rating, count, year) :
        brand \in {"Dior", "Versace", "Phlur"},
        perfume \in {"sauvage-eau-de-parfum", "Acqua Di Gio", "Glow"},
        rating \in CellsOf(RatingCells, DOMAIN RatingCells),
        count \in CellsOf(CountCells, DOMAIN CountCells),
        year \in {"2024", "2012", "nan"}}

RankedRows ==
    {Row(brand, perfume, rating, count, "2015") :
        brand \in {"Dior", "Phlur"}, perfume \in {"Glow", "Halo"},
        rating \in {"4,2", "0"}, count \in {"3", "850"}}

ScoreInit ==
    /\ sources = NoSources
    /\ input = <<>>
    /\ fragrances \in {<<r>> : r \in ScoreRows}
                      \cup {<<a, b, c>> : a \in RankedRows, b \in RankedRows, c \in RankedRows}
    /\ stage = "csv_loaded"
    /\ report = <<>>
    /\ store = NoStore
    /\ importer = NoImport

ScoreNext == CalculatePriorityScores \/ SelectTop

SpecScore == ScoreInit /\ [][ScoreNext]_vars

\* is a cell of one of the given kinds
IsOf(cells, kinds, cell) == cell \in CellsOf(cells, kinds)

\* C20 as stated: the score of a row is 0 exactly when its rating or its
\* review count is missing, unparsable or zero.
C20_Stated ==
    stage = "scored" =>
        \A i \in 1..Len(fragrances) :
            fragrances[i]["priority_score"] = 0
            <=> \/ IsOf(RatingCells, {"missing", "unparsable", "zero"},
                        fragrances[i]["Rating Value"])
                \/ IsOf(CountCells, {"missing", "unparsable", "zero"},
                        fragrances[i]["Rating Count"])

\* C20: the score of a row is 0 exactly when its rating or its review count
\* is missing, unparsable, zero or negative, and is positive otherwise; the
\* rows of score 0 are not among the selected rows, and every row of
\* positive score is selected while fewer than top_n are.
C20_ZeroScoreExcluded ==
    /\ stage = "scored" =>
          \A i \in 1..Len(fragrances) :
              /\ fragrances[i]["priority_score"] >= 0
              /\ fragrances[i]["priority_score"] = 0
                 <=> \/ IsOf(RatingCells, {"missing", "unparsable", "zero", "negative"},
                             fragrances[i]["Rating Value"])
                     \/ IsOf(CountCells, {"missing", "unparsable", "zero", "negative"},
                             fragrances[i]["Rating Count"])
    /\ stage = "selected" =>
          /\ \A i \in 1..Len(fragrances) : fragrances[i]["priority_score"] > 0
          /\ Len(fragrances) =
                Min(top_n, Cardinality({i \in 1..Len(input) : input[i]["priority_score"] > 0}))

\* a file with a row of positive score and a row of score 0, after the
\* selection
C20_Witness ==
    /\ stage = "selected"
    /\ Len(fragrances) = 1
    /\ \E i \in 1..Len(input) : input[i]["priority_score"] = 0

\* C26: the selection keeps min(top_n, number of rows of positive score)
\* rows; they are rows of positive score of the file, no row of positive
\* score left out has a higher score than a row kept, and a row left out
\* with the score of a row kept comes after it in the file.
C26_TopN ==
    stage = "selected" =>
        LET positive == {i \in 1..Len(input) : input[i]["priority_score"] > 0} IN
        /\ Len(fragrances) = Min(top_n, Cardinality(positive))
        /\ \E kept \in [1..Len(fragrances) -> positive] :
              /\ \A j, k \in 1..Len(fragrances) : j # k => kept[j] # kept[k]
              /\ \A j \in 1..Len(fragrances) : fragrances[j] = input[kept[j]]
              /\ \A d \in positive \ {kept[j] : j \in 1..Len(fragrances)} :
                    \A j \in 1..Len(fragrances) :
                        /\ input[d]["priority_score"] <= input[kept[j]]["priority_score"]
                        /\ input[d]["priority_score"] = input[kept[j]]["priority_score"]
                              => kept[j] < d

\* three rows of the same positive score, the third unlike the others: the
\* first two are kept
C26_Witness ==
    /\ stage = "selected"
    /\ Len(input) = 3
    /\ input[1]["priority_score"] > 0
    /\ input[2]["priority_score"] = input[1]["priority_score"]
    /\ input[3]["priority_score"] = input[1]["priority_score"]
    /\ input[3] # input[1] /\ input[3] # input[2]
    /\ fragrances = <<input[1], input[2]>>

(***************************************************************************)
(* Calls of calculate_priority_score in any order on the rows of a file of *)
(* two rows, which may be equal.                                           *)
(***************************************************************************)
CallsInit ==
    /\ sources = NoSources
    /\ input = <<>>
    /\ fragrances \in {<<a, b>> : a \in RankedRows, b \in RankedRows}
    /\ stage = "csv_loaded"
    /\ report = <<>>
    /\ store = NoStore
    /\ importer = NoImport

CallsNext == ScoreCall

SpecCalls == CallsInit /\ [][CallsNext]_vars

PipelineRecords ==
    { [id |-> "dior__sauvage", brand_id |-> "dior", name |-> "Sauvage"]
      @@ accords @@ year @@ score @@ brand_name @@ notes @@ sample @@ source :
        accords \in {<<>>, [accords |-> <<"woody">>], [main_accords |-> <<"fresh">>]},
        year \in {<<>>, [year |-> <<2015>>], [year |-> None], [launch_year |-> <<1999>>]},
        score \in {<<>>, [priority_score |-> <<5>>], [popularity_score |-> <<7>>]},
        brand_name \in Optional("brand_name", {"Dior"}),
        notes \in Optional("top_notes", {"", "bergamot, pepper"}),
        sample \in Optional("sample_available", {FALSE}),
        source \in Optional("data_source", {"kaggle"}) }

TransformInit ==
    /\ sources = NoSources
    /\ input = <<>>
    /\ fragrances \in {<<r>> : r \in PipelineRecords}
    /\ stage = "pipeline_records"
    /\ report = <<>>
    /\ store = NoStore
    /\ importer = NoImport

TransformNext == TransformForDb

SpecTransform == TransformInit /\ [][TransformNext]_vars

TierBrands == {"dior", "chanel"}

TierTables ==
    {[config EXCEPT !.tiers =
         <<[tier |-> "luxury_tier", boost_multiplier |-> 18, brands |-> l],
           [tier |-> "premium_tier", boost_multiplier |-> 15, brands |-> p],
           [tier |-> "popular_tier", boost_multiplier |-> 13, brands |-> q]>>] :
        l \in SUBSET TierBrands, p \in SUBSET TierBrands, q \in SUBSET TierBrands}

Candidate(brand) ==
    [brand |-> brand, name |-> "Glow", normalized_brand |-> Lower(brand),
     normalized_name |-> "glow", priority_id |-> Lower(brand) \o "__glow"]

TiersInit ==
    /\ \E t \in TierTables : sources = [brands |-> t]
    /\ \E a, b \in {"Dior", "Chanel", "Phlur"} :
          /\ input = <<Row(a, "Glow", "4,2", "3", "2015"), Row(b, "Glow", "4,2", "3", "2015")>>
          /\ fragrances = <<Candidate(a), Candidate(b)>>
    /\ stage = "qualified"
    /\ report = <<>>
    /\ store = NoStore
    /\ importer = NoImport

TiersNext ==
    \/ ScoreWithTable
    \/ PrioritizeByBrandTier

SpecTiers == TiersInit /\ [][TiersNext]_vars

\* the first tier of the table that lists the brand, 0 when none does
FirstTier(brand) ==
    FirstIndex({k \in 1..Len(sources.brands.tiers) :
                  brand \in sources.brands.tiers[k].brands})

StatedMultiplier(brand) ==
    IF FirstTier(brand) > 0
    THEN sources.brands.tiers[FirstTier(brand)].boost_multiplier ELSE 10

\* the scorer's part: a row of rating 4.2 with 3 reviews of 2015 scores
\* 4.2 * log(4) * multiplier * 1.1
ScorerUsesFirstTier ==
    \A i \in 1..Len(report) :
        report[i] = 42 * log[4] * StatedMultiplier(Lower(input[i]["Brand"])) * 22

\* C25: a brand listed in several tiers gets the multiplier of the first
\* tier that lists it, a brand in no tier gets 1.0, and the gap analyzer
\* resolves the brand to the same tier as the scorer.
C25_FirstTierWins ==
    /\ ScorerUsesFirstTier
    /\ stage = "prioritized" =>
          \A i \in 1..Len(fragrances) :
              LET brand == fragrances[i]["normalized_brand"] IN
              /\ fragrances[i]["priority_score"] = StatedMultiplier(brand)
              /\ fragrances[i]["brand_tier"] =
                    IF FirstTier(brand) > 0
                    THEN sources.brands.tiers[FirstTier(brand)].tier ELSE "unknown"

(***************************************************************************)
(* The counters of import_pipeline_data: import_brands on a brands file,   *)
(* then import_fragrances on a fragrance file, then the summary.           *)
(***************************************************************************)
BrandRecord(k, kind) ==
    [id |-> "brand" \o StrNat(k),
     name |-> IF kind = "unnamed" THEN "" ELSE "brand " \o StrNat(k),
     slug |-> "brand" \o StrNat(k),
     brand_tier |-> IF kind = "bad_tier" THEN "elite" ELSE "luxury",
     fragrance_count |-> <<k>>]

BrandFiles ==
    UNION {{[k \in 1..n |-> BrandRecord(k, kinds[k])] :
              kinds \in [1..n -> {"valid", "unnamed", "bad_tier"}]} : n \in 0..MaxBrands}

CountedFiles ==
    UNION {{[k \in 1..n |-> ImportRecord(k, kinds[k])] :
              kinds \in [1..n -> {"valid", "invalid"}]} : n \in 0..MaxCounted}

CountersInit ==
    /\ sources = NoSources
    /\ input \in BrandFiles
    /\ fragrances \in CountedFiles
    /\ stage = "brands_ready"
    /\ report = <<>>
    /\ store \in {[fragrances |-> ids, requests |-> <<>>] : ids \in SUBSET {"dior__f1"}}
    /\ importer = [import_stats |-> ZeroStats, brands_imported |-> 0]

CountersNext ==
    \/ ImportBrands
    \/ ImportValidate
    \/ ImportCheckExisting
    \/ BatchUpsert
    \/ ImportReturn
    \/ ImportSummary

SpecCounters == CountersInit /\ [][CountersNext]_vars

\* the records posted so far
submitted == Len(Flatten(posted_batches))

\* C28: when import_brands and import_fragrances are over, the records
\* processed are those rejected by validation, those skipped because the
\* store holds their id and those submitted, and no more records are
\* reported imported than were submitted; the report carries the same
\* numbers.
C28_CountersAddUp ==
    /\ stage \in {"import_done", "import_reported"} =>
          LET stats == importer.import_stats IN
          /\ stats.brands_processed = Len(input)
          /\ stats.fragrances_processed = Len(fragrances)
          /\ stats.brands_processed + stats.fragrances_processed =
                stats.validation_errors + stats.duplicates_detected + submitted
          /\ stats.duplicates_detected = stats.brands_skipped + stats.fragrances_skipped
          /\ stats.brands_imported + stats.fragrances_imported <= submitted
    /\ stage = "import_reported" =>
          /\ report.tracking.total_records_processed =
                report.tracking.errors_encountered + report.tracking.duplicates_skipped
                + report.summary.total_records
          /\ report.summary.total_records = submitted
          /\ report.tracking.brands_imported + report.tracking.fragrances_imported
                <= report.summary.total_records

\* a run in which a brand was rejected, a fragrance was skipped, another
\* was submitted and the store failed its batch
C28_Witness ==
    /\ stage = "import_reported"
    /\ importer.import_stats.brands_processed = 1
    /\ importer.import_stats.validation_errors = 1
    /\ importer.import_stats.fragrances_skipped = 1
    /\ importer.brands_imported = 0
    /\ importer.result = 1
    /\ importer.import_stats.fragrances_imported = 0

(***************************************************************************)
(* Monitoring: cycles of the monitoring system one after another, from its *)
(* construction.                                                           *)
(***************************************************************************)
MonitorInit ==
    /\ sources = NoSources
    /\ input = <<>>
    /\ fragrances = <<>>
    /\ stage = "monitoring"
    /\ report = [monitoring_stats |->
                    [total_runs |-> 0, successful_runs |-> 0, failed_runs |-> 0,
                     last_run_status |-> Null, total_fragrances_monitored |-> 0,
                     total_new_fragrances_added |-> 0],
                 results |-> <<>>]
    /\ store = NoStore
    /\ importer = NoImport

MonitorNext == ExecuteMonitoringCycle

SpecMonitor == MonitorInit /\ [][MonitorNext]_vars

\* C29: every cycle has returned its results, raising nothing; total_runs
\* is the number of cycles run and the sum of successful_runs and
\* failed_runs; last_run_status is the outcome of the last cycle.
C29_CyclesCounted ==
    LET stats == report.monitoring_stats
        n == Len(report.results)
    IN /\ \A k \in 1..n : DOMAIN report.results[k] = {"returned"}
       /\ stats.total_runs = n
       /\ stats.total_runs = stats.successful_runs + stats.failed_runs
       /\ stats.successful_runs =
             Cardinality({k \in 1..n : "returned" \in DOMAIN report.results[k]
                                       /\ report.results[k].returned.success})
       /\ n = 0 => stats.last_run_status = Null
       /\ n > 0 /\ "returned" \in DOMAIN report.results[n] =>
             stats.last_run_status =
                IF report.results[n].returned.success THEN "success" ELSE "failed"

\* a cycle that failed in the import phase with its notification not sent,
\* then one that succeeded
C29_Witness ==
    /\ Len(report.results) = 2
    /\ report.results[1].returned.errors_encountered =
          <<[error_type |-> "Exception", error_message |-> "import"]>>
    /\ report.results[1].returned.notifications_sent = 0
    /\ report.results[2].returned.success
    /\ report.monitoring_stats.failed_runs = 1
    /\ report.monitoring_stats.successful_runs = 1
    /\ report.monitoring_stats.last_run_status = "success"

(***************************************************************************)
(* The merge: a Kaggle base of pairwise distinct ids, scraped records and  *)
(* manually collected records, each with an id of its own or without.      *)
(***************************************************************************)
KaggleBase ==
    <<[id |-> "dior__sauvage", brand_id |-> "dior", slug |-> "sauvage",
       name |-> "Sauvage", brand |-> "Dior", scraped_source |-> "kaggle"],
      [id |-> "dior__homme", brand_id |-> "dior", slug |-> "homme",
       name |-> "Homme", brand |-> "Dior", scraped_source |-> "kaggle"]>>

Scraped(name, with_id) ==
    [brand_id |-> "dior", slug |-> Lower(name), name |-> name, brand |-> "Dior",
     scraped_source |-> "scrapy"]
    @@ (IF with_id THEN [id |-> MakeId("dior", Lower(name))] ELSE <<>>)

Collected(name, with_id) ==
    [name |-> name, brand |-> "Dior"]
    @@ (IF with_id THEN [id |-> MakeId("dior", Lower(name)), brand_id |-> "dior",
                         slug |-> Lower(name)]
        ELSE <<>>)

MergeInit ==
    /\ \E scrapy \in SeqsUpTo({Scraped(n, w) : n \in {"Sauvage", "Fahrenheit"},
                                               w \in BOOLEAN}, MaxAdded) :
       \E manual \in SeqsUpTo({Collected(n, w) : n \in {"Sauvage", "Fahrenheit"},
                                                 w \in BOOLEAN}, MaxAdded) :
          sources = [NoSources EXCEPT !.scrapy = scrapy, !.manual = manual]
    /\ input = <<>>
    /\ \E n \in 0..Len(KaggleBase) : fragrances = SubSeq(KaggleBase, 1, n)
    /\ stage = "cleaned"
    /\ report = <<>>
    /\ store = NoStore
    /\ importer = NoImport

MergeNext == MergeAllDatasets

SpecMerge == MergeInit /\ [][MergeNext]_vars

\* the identity a record denotes: its id, or brand_id__slug when it has none
IdentityOf(r) == Get(r, "id", MakeId(Get(r, "brand_id", ""), Get(r, "slug", "")))

\* the base is kept, unchanged and in front
BaseKept == SubSeq(fragrances, 1, Len(input)) = input

\* C30: the merged dataset holds no identity twice, and where a scraped or
\* manual record meets the identity of a record of an earlier source, the
\* earlier record is the one kept, unchanged.
C30_NoDuplicateIdentity ==
    stage = "merged" =>
        /\ \A i, j \in 1..Len(fragrances) :
              i # j => IdentityOf(fragrances[i]) # IdentityOf(fragrances[j])
        /\ BaseKept
        /\ \A k \in 1..Len(sources.scrapy) :
              \E i \in 1..Len(fragrances) :
                 /\ IdentityOf(fragrances[i]) = IdentityOf(sources.scrapy[k])
                 /\ fragrances[i]["scraped_source"] \in {"kaggle", "scrapy"}

=============================================================================
